---------------------------- MODULE Spec2Model ----------------------------
(***************************************************************************)
(* Model of the tool-management subsystem of ToolArtifact                  *)
(* (src/tool_creation_tool.js): ToolCreationManager.initialize,            *)
(* createTool, sanitizeGeneratedCode, getToolDefinition,                   *)
(* getAvailableTools and executeTool, run as concurrent async calls that   *)
(* interleave at their await points over one Chroma collection, and of the *)
(* performAction handler of the server (src/server.js), which runs a       *)
(* stored tool for a player's artifact.                                    *)
(*                                                                         *)
(* Strings that the code builds or inspects are sequences of tokens, so    *)
(* that startsWith, trim, the fence-stripping regex and the function       *)
(* search act on text and are not assumed to succeed.                      *)
(***************************************************************************)
EXTENDS Integers, Sequences, FiniteSets, TLC

(***************************************************************************)
(* Bounds of the model.                                                    *)
(***************************************************************************)
\* total number of calls (initialize, createTool, executeTool,
\* getAvailableTools, performAction) started in one behaviour
MaxCalls == 2
\* largest nResults a caller passes to getAvailableTools
MaxCount == 2
\* largest number of EXECUTE TOOL lines in a bootstrap file
MaxLines == 2

\* calls in flight at the same time (each is one async invocation)
Slots == {"a", "b"}

(***************************************************************************)
(* JavaScript values that reach the subsystem as names, descriptions and   *)
(* argument fields.  t is the value's kind, v its text.                    *)
(***************************************************************************)
Str(s)  == [t |-> "str", v |-> s]
Num(s)  == [t |-> "num", v |-> s]
Null    == [t |-> "null", v |-> "null"]
Undef   == [t |-> "undef", v |-> "undefined"]

\* typeof x
TypeOf(x) ==
    CASE x.t = "str"   -> "string"
      [] x.t = "num"   -> "number"
      [] x.t = "undef" -> "undefined"
      [] OTHER         -> "object"      \* null, objects and arrays

\* !x
Falsy(x) == \/ x.t \in {"null", "undef"}
            \/ x.t = "str" /\ x.v = ""
            \/ x.t = "num" /\ x.v = "0"

\* x === undefined || x === null
Nullish(x) == x.t \in {"null", "undef"}

\* String(x) as one token of text
ToText(x) == x.v

(***************************************************************************)
(* Parameter schemas.  A schema value is what a caller passes as           *)
(* newToolParameters: t is its kind; for an object, type is its .type      *)
(* member, properties the kind of its .properties member, props the keys   *)
(* of that member, required the kind of its .required member and req the   *)
(* names it lists; extra is a further member whose value JSON cannot       *)
(* carry ("undefined"), or "none".                                         *)
(***************************************************************************)
Schema(ty, pk, ps, rk, rq, ex) ==
    [t |-> "obj", v |-> "[object Object]", type |-> ty, properties |-> pk,
     props |-> ps, required |-> rk, req |-> rq, extra |-> ex]
NotASchema(k) ==
    [t |-> k, v |-> "schema", type |-> "absent", properties |-> "absent",
     props |-> {}, required |-> "absent", req |-> <<>>, extra |-> "none"]

\* {type:'object', properties:{name:{type:'string'}}, required:['name']}
SchemaName == Schema("object", "map", {"name"}, "list", <<"name">>, "none")
\* {type:'object', properties:{}}
SchemaEmpty == Schema("object", "map", {}, "absent", <<>>, "none")
\* {type:'string', properties:{}}
SchemaBadType == Schema("string", "map", {}, "absent", <<>>, "none")
\* {type:'object', properties:null}
SchemaNullProps == Schema("object", "null", {}, "absent", <<>>, "none")
\* {type:'object'}
SchemaNoProps == Schema("object", "absent", {}, "absent", <<>>, "none")
\* {type:'object', properties:{}, note: undefined}
SchemaUndefMember == Schema("object", "map", {}, "absent", <<>>, "undefined")
\* {type:'object', properties:{soulId:{...}, targetLocationId:{...}},
\*  required:['soulId', 'targetLocationId']}
SchemaMove ==
    Schema("object", "map", {"soulId", "targetLocationId"}, "list",
           <<"soulId", "targetLocationId">>, "none")
SchemaNull  == NotASchema("null")
SchemaStr   == NotASchema("str")
SchemaUndef == NotASchema("undef")

\* JSON.stringify(schema): the members in order; a member whose value is
\* undefined is left out of the text.  json marks the result as text.
JSONstringify(s) ==
    [json |-> TRUE, type |-> s.type, properties |-> s.properties,
     props |-> s.props, required |-> s.required, req |-> s.req]

\* JSON.parse(text): the object the text denotes
JSONparse(j) ==
    Schema(j.type, j.properties, j.props, j.required, j.req, "none")

\* TOOL_CREATION_TOOL_DEFINITION.function.parameters (lines 18-41)
ReservedParameters ==
    Schema("object", "map",
           {"new_tool_name", "new_tool_description", "new_tool_parameters"},
           "list",
           <<"new_tool_name", "new_tool_description", "new_tool_parameters">>,
           "none")

(***************************************************************************)
(* Source text.  A text is a sequence of tokens; the tokens below are the  *)
(* ones the provider's answers and the stored code are made of.            *)
(***************************************************************************)
\* three backquotes, the markdown code fence
FENCE    == "[fence]"
LANG     == "javascript"
SP       == " "
NL       == "\\n"
FUNCTION == "function"
ASYNC    == "async"
PARAMS   == "(params)"
LBRACE   == "{"
RBRACE   == "}"
PROSE    == "Here is the function:"
COMMENT  == "// greets a soul\\n"
RETURN42 == "return 42;"

\* function bodies, each one token
BodyHello == "{ return 'Hello, ' + params.name; }"
BodyNum   == "{ return 42; }"
BodyThrow == "{ throw new Error('boom'); }"
BodyWith  == "{ with (params) { return name; } }"
BodyBad   == "{ return 'Hello, ;"
BodyMove  == "{ params.locationId = params.targetLocationId; return 'Moved to ' + params.targetLocationId; }"
BodyBare  == "{ return Object.create(null); }"
BodyMoveState == "{ gameState.souls[params.soulId].locationId = params.targetLocationId; return 'Moved.'; }"

\* bodies that parse as sloppy code, and those that also parse as strict code
SloppyBodies ==
    {BodyHello, BodyNum, BodyThrow, BodyWith, BodyMove, BodyMoveState,
     BodyBare}
StrictBodies ==
    {BodyHello, BodyNum, BodyThrow, BodyMove, BodyMoveState, BodyBare}

\* identifiers that occur as function names in texts
Identifiers ==
    {"greet", "greet_all", "tool_creation", "move_soul", "count_souls",
     "find_soul"}

\* the reserved tool's name (line 16)
ReservedName == "tool_creation"

IsWS(tok) == tok \in {SP, NL}

\* a is a prefix of b, as strings, for the identifiers of the model
NameHasPrefix(b, a) == a = b \/ (a = "greet" /\ b = "greet_all")

Tail2(t, n) == SubSeq(t, n + 1, Len(t))

RECURSIVE TrimStart(_)
TrimStart(t) == IF t # <<>> /\ IsWS(Head(t)) THEN TrimStart(Tail(t)) ELSE t

RECURSIVE TrimEnd(_)
TrimEnd(t) ==
    IF t # <<>> /\ IsWS(t[Len(t)]) THEN TrimEnd(SubSeq(t, 1, Len(t) - 1)) ELSE t

\* String.prototype.trim
Trim(t) == TrimEnd(TrimStart(t))

\* index of the first token at or after i that is not whitespace
RECURSIVE SkipWS(_, _)
SkipWS(t, i) == IF i <= Len(t) /\ IsWS(t[i]) THEN SkipWS(t, i + 1) ELSE i

\* code.replace(<leading fence, optional language tag, whitespace> or
\* <fence, whitespace, end of text>, '')   (line 310)
StripFences(t) ==
    LET lead ==
            IF t # <<>> /\ t[1] = FENCE
            THEN LET a == IF Len(t) >= 2 /\ t[2] = LANG THEN 3 ELSE 2
                 IN  Tail2(t, SkipWS(t, a) - 1)
            ELSE t
        \* the last fence, when only whitespace follows it
        cut == {i \in 1..Len(lead) :
                   /\ lead[i] = FENCE
                   /\ \A j \in (i + 1)..Len(lead) : IsWS(lead[j])}
    IN  IF cut = {} THEN lead
        ELSE SubSeq(lead, 1, (CHOOSE i \in cut : \A j \in cut : i <= j) - 1)

\* text.startsWith('function ' + fn) / text.startsWith('async function ' + fn)
StartsWithFunctionName(t, fn, isAsync) ==
    LET off == IF isAsync THEN 2 ELSE 0
    IN  /\ Len(t) >= off + 3
        /\ isAsync => (t[1] = ASYNC /\ t[2] = SP)
        /\ t[off + 1] = FUNCTION
        /\ t[off + 2] = SP
        /\ NameHasPrefix(t[off + 3], fn)

\* text.startsWith('function ' + fn + '(params)'), or its async form
StartsWithSignature(t, fn, isAsync) ==
    LET off == IF isAsync THEN 2 ELSE 0
    IN  /\ Len(t) >= off + 4
        /\ isAsync => (t[1] = ASYNC /\ t[2] = SP)
        /\ t[off + 1] = FUNCTION
        /\ t[off + 2] = SP
        /\ t[off + 3] = fn
        /\ t[off + 4] = PARAMS

\* text.search(/^(async\s+)?function\s+/): the regex is anchored at the
\* start of the text (no m flag), so it matches at index 0 or nowhere
FunctionSearch(t) ==
    LET a == IF t # <<>> /\ t[1] = ASYNC /\ Len(t) >= 2 /\ IsWS(t[2])
             THEN SkipWS(t, 2) ELSE 1
    IN  IF a + 1 <= Len(t) /\ t[a] = FUNCTION /\ IsWS(t[a + 1]) THEN 0 ELSE -1

\* sanitizeGeneratedCode(code, functionName)   (lines 308-332)
sanitizeGeneratedCode(code, functionName) ==
    LET sanitizedCode == Trim(StripFences(code))
    IN  IF /\ ~StartsWithFunctionName(sanitizedCode, functionName, FALSE)
           /\ ~StartsWithFunctionName(sanitizedCode, functionName, TRUE)
        THEN LET funcIndex == FunctionSearch(sanitizedCode)
             IN  IF funcIndex # -1
                 THEN Tail2(sanitizedCode, funcIndex)
                 ELSE <<FUNCTION, SP, functionName, PARAMS, SP, LBRACE, NL>>
                      \o sanitizedCode \o <<NL, RBRACE>>
        ELSE sanitizedCode


(***************************************************************************)
(* Parsing.  new Function('params', code) parses code as the statements    *)
(* of a function body.  A statement is a comment line, a return            *)
(* statement, or a function declaration                                    *)
(*     [async] function <identifier>(params) <body>                        *)
(* whose body is one body token or a braced statement list.  Anything      *)
(* else (prose, a fence, an unterminated body) is a SyntaxError.           *)
(***************************************************************************)
\* one item of the text at index j: a simple statement, a function
\* declaration with a one-token body ("function"), the header of one with a
\* braced body up to its opening brace ("open"), or a closing brace
Item(k, isAsync, name, body, next) ==
    [ok |-> TRUE, next |-> next,
     item |-> [k |-> k, isAsync |-> isAsync, name |-> name, body |-> body]]

NoItem ==
    [ok |-> FALSE, next |-> 0,
     item |-> [k |-> "none", isAsync |-> FALSE, name |-> "", body |-> ""]]

\* a function declaration whose keyword is at f, name at n, parameter list
\* at p and body at b (gapOK: whitespace follows the async keyword, if any)
HeaderItem(t, strict, isAsync, gapOK, f, n, p, b) ==
    IF /\ b <= Len(t)
       /\ gapOK
       /\ t[f] = FUNCTION
       /\ n > f + 1
       /\ t[n] \in Identifiers
       /\ t[p] = PARAMS
    THEN IF t[b] = LBRACE
         THEN Item("open", isAsync, t[n], "block", b + 1)
         ELSE IF t[b] \in (IF strict THEN StrictBodies ELSE SloppyBodies)
         THEN Item("function", isAsync, t[n], t[b], b + 1)
         ELSE NoItem
    ELSE NoItem

HeaderFromParams(t, strict, isAsync, gapOK, f, n, p) ==
    HeaderItem(t, strict, isAsync, gapOK, f, n, p, SkipWS(t, p + 1))

HeaderFromName(t, strict, isAsync, gapOK, f, n) ==
    HeaderFromParams(t, strict, isAsync, gapOK, f, n, SkipWS(t, n + 1))

HeaderFromKeyword(t, strict, isAsync, gapOK, f) ==
    HeaderFromName(t, strict, isAsync, gapOK, f, SkipWS(t, f + 1))

ItemAt(t, j, strict) ==
    IF t[j] = RBRACE THEN Item("close", FALSE, "", RBRACE, j + 1)
    ELSE IF t[j] = RETURN42 THEN Item("return", FALSE, "", RETURN42, j + 1)
    ELSE IF t[j] = COMMENT THEN Item("comment", FALSE, "", COMMENT, j + 1)
    ELSE IF t[j] = ASYNC
    THEN HeaderFromKeyword(t, strict, TRUE, SkipWS(t, j + 1) > j + 1,
                           SkipWS(t, j + 1))
    ELSE HeaderFromKeyword(t, strict, FALSE, TRUE, j)

\* the items of the text from index i on, appended to acc; it is the item
\* at i
RECURSIVE Scan(_, _, _, _)
ScanItem(t, strict, acc, it) ==
    IF ~it.ok THEN [ok |-> FALSE, items |-> acc]
    ELSE Scan(t, it.next, strict, Append(acc, it.item))

ScanAt(t, j, strict, acc) ==
    IF j > Len(t) THEN [ok |-> TRUE, items |-> acc]
    ELSE ScanItem(t, strict, acc, ItemAt(t, j, strict))

Scan(t, i, strict, acc) == ScanAt(t, SkipWS(t, i), strict, acc)

\* number of braces open before item i
Depth(items, i) ==
    Cardinality({k \in 1..(i - 1) : items[k].k = "open"})
    - Cardinality({k \in 1..(i - 1) : items[k].k = "close"})

Balanced(items) ==
    /\ \A i \in 1..(Len(items) + 1) : Depth(items, i) >= 0
    /\ Depth(items, Len(items) + 1) = 0

\* the kinds of the statements directly inside the braced body opened by
\* item i
KindsAt(items, idx) ==
    [j \in 1..Len(idx) |-> IF items[idx[j]].k = "open" THEN "function"
                           ELSE items[idx[j]].k]

\* the index of the brace that closes the body opened by item i
ClosingOf(items, i) ==
    CHOOSE m \in (i + 1)..Len(items) :
        /\ Depth(items, m + 1) = Depth(items, i)
        /\ \A y \in (i + 1)..(m - 1) : Depth(items, y + 1) # Depth(items, i)

InnerIndices(items, i, m) ==
    LET In(j) == j > i /\ j < m /\ Depth(items, j) = Depth(items, i) + 1
                 /\ items[j].k # "close"
    IN  SelectSeq([j \in 1..Len(items) |-> j], In)

InnerKinds(items, i) ==
    KindsAt(items, InnerIndices(items, i, ClosingOf(items, i)))

TopIndices(items) ==
    LET Top(j) == Depth(items, j) = 0
    IN  SelectSeq([j \in 1..Len(items) |-> j], Top)

StmtOf(items, i) ==
    [k |-> IF items[i].k = "open" THEN "function" ELSE items[i].k,
     isAsync |-> items[i].isAsync, name |-> items[i].name,
     body |-> items[i].body,
     inner |-> IF items[i].k = "open" THEN InnerKinds(items, i) ELSE <<>>]

StmtsAt(items, idx) == [j \in 1..Len(idx) |-> StmtOf(items, idx[j])]

ParseScanned(sc) ==
    IF ~sc.ok \/ ~Balanced(sc.items)
    THEN [ok |-> FALSE, stmts |-> <<>>]
    ELSE [ok |-> TRUE, stmts |-> StmtsAt(sc.items, TopIndices(sc.items))]

\* the statement list of a text: ok when the text parses, stmts the
\* statements of its top level, each function with the kinds of the
\* statements of its body
ParseStmts(t, strict) == ParseScanned(Scan(t, 1, strict, <<>>))

\* new Function('params', generatedCode) does not throw   (line 258)
SyntaxOK(code) == ParseStmts(code, FALSE).ok

\* names the wrapper of executeTool declares in the block that receives the
\* tool code (const result, line 503)
WrapperBindings == {"result"}

\* the statements of the tool code as the wrapper sees them: strict code
\* inside the wrapper's try block
WrapperStmts(code) == ParseStmts(code, TRUE)

\* new Function('params', <wrapper text around toolCode>) does not throw
\* (lines 491-518)
WrapperCompiles(toolCode) ==
    LET p == WrapperStmts(toolCode)
        fns == {i \in 1..Len(p.stmts) : p.stmts[i].k = "function"}
    IN  /\ p.ok
        /\ \A i \in fns : p.stmts[i].name \notin WrapperBindings
        /\ \A i, j \in fns : p.stmts[i].name = p.stmts[j].name => i = j


(***************************************************************************)
(* Argument bags.  t is the kind of the args value itself; the other       *)
(* fields are its members (Undef when the member is missing).              *)
(***************************************************************************)
Args(nm, n, d, p) ==
    [t |-> "obj", name |-> nm, new_tool_name |-> n,
     new_tool_description |-> d, new_tool_parameters |-> p,
     soulId |-> Undef, locationId |-> Undef, targetLocationId |-> Undef]
NotAnObject(k) ==
    [t |-> k, name |-> Undef, new_tool_name |-> Undef,
     new_tool_description |-> Undef, new_tool_parameters |-> SchemaUndef,
     soulId |-> Undef, locationId |-> Undef, targetLocationId |-> Undef]
ArgsNull  == NotAnObject("null")
ArgsUndef == NotAnObject("undef")
ArgsEmpty == Args(Undef, Undef, Undef, SchemaUndef)

\* args[param], for args that is an object
Member(args, param) ==
    CASE param = "name"                 -> args.name
      [] param = "new_tool_name"        -> args.new_tool_name
      [] param = "new_tool_description" -> args.new_tool_description
      [] param = "new_tool_parameters"  -> args.new_tool_parameters
      [] param = "soulId"               -> args.soulId
      [] param = "locationId"           -> args.locationId
      [] param = "targetLocationId"     -> args.targetLocationId
      [] OTHER                          -> Undef

\* a required check that tests only for undefined: a variant of
\* RequiredCheckThrows under which the property of C4 must fail
RequiredCheckThrowsUndefinedOnly(required, args) ==
    /\ required # <<>>
    /\ \/ args.t # "obj"
       \/ \E i \in 1..Len(required) : Member(args, required[i]).t = "undef"

\* the loop "for (const param of required) if (args[param] === undefined ||
\* args[param] === null) throw" (lines 435-439 and 480-484): TRUE when it
\* throws.  Reading a member of null or undefined throws a TypeError.
RequiredCheckThrows(required, args) ==
    /\ required # <<>>
    /\ \/ args.t # "obj"
       \/ \E i \in 1..Len(required) : Nullish(Member(args, required[i]))

(***************************************************************************)
(* Results.  A result is a value of kind t; a string is its text, a        *)
(* sequence of tokens, and a list (getAvailableTools) is in list.          *)
(***************************************************************************)
StringResult(text) == [t |-> "string", text |-> text, list |-> <<>>]
ValueResult(t, text) == [t |-> t, text |-> text, list |-> <<>>]
ListResult(list) == [t |-> "list", text |-> <<>>, list |-> list]
NoResult == [t |-> "none", text |-> <<>>, list |-> <<>>]

ErrorResult(rest) == StringResult(<<"Error:">> \o rest)

\* result.startsWith('Error:')
StartsWithError(r) == r.t = "string" /\ r.text # <<>> /\ r.text[1] = "Error:"

(***************************************************************************)
(* Running stored code (executeTool, lines 491-537).                       *)
(***************************************************************************)
Returns(t, text) == [k |-> "return", t |-> t, text |-> text]
Throws(text)     == [k |-> "throw", t |-> "error", text |-> text]

\* what the body of function declaration fn does when called with args
Invoke(fn, args) ==
    CASE fn.body = BodyHello ->
            IF args.t # "obj"
            THEN Throws(<<"Cannot read properties of", args.t>>)
            ELSE Returns("string", <<"Hello,", ToText(args.name)>>)
      [] fn.body = BodyNum   -> Returns("number", <<"42">>)
      [] fn.body = BodyBare  ->
            \* an object without prototype: it has no toString and no valueOf
            Returns("bare", <<>>)
      [] fn.body = BodyThrow -> Throws(<<"boom">>)
      [] fn.body = BodyMove  ->
            IF args.t # "obj"
            THEN Throws(<<"Cannot read properties of", args.t>>)
            ELSE Returns("string", <<"Moved to", ToText(args.targetLocationId)>>)
      [] fn.body = BodyMoveState ->
            \* gameState is a const of the module server.js (line 31); it is
            \* no binding of the code new Function compiles
            Throws(<<"gameState is not defined">>)
      [] fn.body = "block"   ->
            IF \E i \in 1..Len(fn.inner) : fn.inner[i] = "return"
            THEN Returns("number", <<"42">>)
            ELSE Returns("undefined", <<"undefined">>)
      [] OTHER               -> Returns("undefined", <<"undefined">>)

\* names of functions of the global object that are also tool names of
\* the model, and the string each returns for an args object
GlobalFunctions == {"escape"}
GlobalResult(name) == "%5Bobject%20Object%5D"

Ran(result, invoked, failed, escaped) ==
    [result |-> result, invoked |-> invoked, failed |-> failed,
     escaped |-> escaped]

\* the value an async function hands back to a synchronous caller, and its
\* text under String()
PromiseText == <<"[object Promise]">>

\* a wrapper that hands back what the function returned, unconverted: a
\* variant of RunWrapper under which the property of C27 must fail
RunWrapperRaw(toolCode, toolName, args) ==
    LET stmts == WrapperStmts(toolCode).stmts
        decl  == {i \in 1..Len(stmts) :
                    stmts[i].k = "function" /\ stmts[i].name = toolName}
    IN  IF ~WrapperCompiles(toolCode) \/ decl = {}
        THEN Ran(ErrorResult(<<"Failed to execute tool", toolName>>),
                 FALSE, TRUE, FALSE)
        ELSE LET o == Invoke(stmts[CHOOSE i \in decl : TRUE], args)
             IN  IF o.k = "throw"
                 THEN Ran(ErrorResult(<<"Execution failed for tool",
                                        toolName>> \o o.text),
                          TRUE, TRUE, FALSE)
                 ELSE Ran(ValueResult(o.t, o.text), TRUE, FALSE, FALSE)

\* new Function('params', wrapper)(args): compile the wrapper around
\* toolCode and run it.  failed: some step failed (compilation, the typeof
\* check, the invocation); escaped: a failure left the call unhandled.
RunWrapper(toolCode, toolName, args) ==
    IF ~WrapperCompiles(toolCode)
    THEN \* new Function throws a SyntaxError: outer catch (line 532)
         Ran(ErrorResult(<<"Failed to execute tool", toolName,
                           "Malformed code or unexpected runtime error.">>),
             FALSE, TRUE, FALSE)
    ELSE LET stmts == WrapperStmts(toolCode).stmts
             decl  == {i \in 1..Len(stmts) :
                         stmts[i].k = "function" /\ stmts[i].name = toolName}
         IN  IF \E i \in 1..Len(stmts) : stmts[i].k = "return"
             THEN \* a return statement of the tool code, in the wrapper's
                  \* own body, ends the wrapper before the typeof check
                  Ran(ValueResult("number", <<"42">>), FALSE, FALSE, FALSE)
             ELSE IF decl = {} /\ toolName \in GlobalFunctions
             THEN \* the code binds no such function: typeof toolName and
                  \* the call of line 503 resolve the name in the global
                  \* scope, the only scope around code made by new Function
                  Ran(StringResult(<<GlobalResult(toolName)>>),
                      TRUE, FALSE, FALSE)
             ELSE IF decl = {}
             THEN \* typeof toolName !== 'function' (line 498)
                  Ran(ErrorResult(<<"Execution failed for tool", toolName,
                                    "Tool code did not define function">>),
                      FALSE, TRUE, FALSE)
             ELSE LET fn == stmts[CHOOSE i \in decl : TRUE]
                      o  == Invoke(fn, args)
                  IN  IF fn.isAsync
                      THEN \* the promise is not a string: String(result)
                           Ran(StringResult(PromiseText), TRUE,
                               o.k = "throw", o.k = "throw")
                      ELSE IF o.k = "throw"
                      THEN Ran(ErrorResult(<<"Execution failed for tool",
                                             toolName>> \o o.text),
                               TRUE, TRUE, FALSE)
                      ELSE IF o.t = "string"
                      THEN Ran(StringResult(o.text), TRUE, FALSE, FALSE)
                      ELSE IF o.t = "bare"
                      THEN \* String(result) throws a TypeError inside the
                           \* wrapper's try (line 507): inner catch
                           Ran(ErrorResult(<<"Execution failed for tool",
                                             toolName,
                                             "Cannot convert object to primitive value">>),
                               TRUE, TRUE, FALSE)
                      ELSE Ran(StringResult(o.text), TRUE, FALSE, FALSE)


(***************************************************************************)
(* Inputs: what callers pass and what the collaborators answer.            *)
(***************************************************************************)
Fn(isAsync, name, body) ==
    (IF isAsync THEN <<ASYNC, SP>> ELSE <<>>) \o <<FUNCTION, SP, name, PARAMS, SP, body>>

\* answers of the code provider (message.content of the completion)
TextHello       == Fn(FALSE, "greet", BodyHello)
TextFenced      == <<FENCE, LANG, NL>> \o TextHello \o <<NL, FENCE>>
TextAsyncHello  == Fn(TRUE, "greet", BodyHello)
TextAsyncThrow  == Fn(TRUE, "greet", BodyThrow)
TextThrow       == Fn(FALSE, "greet", BodyThrow)
TextNum         == Fn(FALSE, "greet", BodyNum)
TextTopReturn   == TextHello \o <<NL, RETURN42>>
TextWith        == Fn(FALSE, "greet", BodyWith)
TextProse       == <<PROSE, NL>> \o TextHello
TextCommented   == <<COMMENT>> \o TextHello
TextOtherName   == Fn(FALSE, "greet_all", BodyHello)
TextBadSyntax   == Fn(FALSE, "greet", BodyBad)
TextStatement   == <<RETURN42>>
TextReserved    == Fn(FALSE, ReservedName, BodyHello)
TextBlank       == <<NL>>

ProviderTexts ==
    {TextHello, TextFenced, TextAsyncHello, TextAsyncThrow, TextThrow,
     TextNum, TextTopReturn, TextWith, TextProse, TextCommented,
     TextOtherName, TextBadSyntax, TextStatement, TextReserved, TextBlank}

\* the answers considered for a tool name
TextMove      == Fn(FALSE, "move_soul", BodyMove)
TextMoveState == Fn(FALSE, "move_soul", BodyMoveState)
TextMoveTopReturn == TextMove \o <<NL, RETURN42>>

ProviderAnswers(name) ==
    IF name = ReservedName
    THEN {TextReserved, TextStatement, TextHello, TextBlank}
    ELSE IF name = "move_soul"
    THEN {TextMove, TextMoveState, TextMoveTopReturn, TextBlank}
    ELSE ProviderTexts \ {TextReserved, TextNum, TextCommented}

\* /^[a-zA-Z_][a-zA-Z0-9_]*$/.test(name), for the names of the model
MatchesIdentifierGrammar(name) ==
    name \in {"greet", "greet_all", "tool_creation", "does_not_exist", "move_soul"}

Description == Str("Return a greeting for a soul name")

\* the name of a record that is put into the collection by hand, not
\* through the manager (the case of the comment at line 464)
ManualName == "manual_tool"

\* (newToolName, newToolDescription, newToolParameters) of createTool calls
CreateInputs ==
    {<<Str("greet"), Description, SchemaName>>,
     <<Str(ReservedName), Description, SchemaEmpty>>,
     <<Str(""), Description, SchemaName>>,
     <<Num("7"), Description, SchemaName>>,
     <<Str("9lives"), Description, SchemaName>>,
     <<Str("greet"), Str(""), SchemaName>>,
     <<Str("greet"), Num("7"), SchemaName>>,
     <<Str("greet"), Description, SchemaNull>>,
     <<Str("greet"), Description, SchemaStr>>,
     <<Str("greet"), Description, SchemaBadType>>,
     <<Str("greet"), Description, SchemaNoProps>>,
     <<Str("greet"), Description, SchemaNullProps>>}

ArgsAria == Args(Str("Aria"), Undef, Undef, SchemaUndef)
ArgsNullName == Args(Null, Undef, Undef, SchemaUndef)
ArgsNewTool(n, d, p) == Args(Undef, n, d, p)

\* (toolName, args) of executeTool calls
ExecuteInputs ==
    {<<Str("greet"), ArgsAria>>,
     <<Str("greet"), ArgsEmpty>>,
     <<Str("greet"), ArgsNullName>>,
     <<Str("greet"), ArgsNull>>,
     <<Str("greet"), ArgsUndef>>,
     <<Str("does_not_exist"), ArgsEmpty>>,
     <<Str(ManualName), ArgsAria>>,
     <<Str(ReservedName), ArgsNewTool(Str("greet"), Description, SchemaName)>>,
     <<Str(ReservedName), ArgsNewTool(Str("greet"), Description, SchemaBadType)>>,
     <<Str(ReservedName), ArgsNewTool(Str("greet"), Description, SchemaNull)>>,
     <<Str(ReservedName), ArgsNewTool(Str("greet"), Description, SchemaUndef)>>,
     <<Str(ReservedName), ArgsNewTool(Num("7"), Description, SchemaName)>>,
     <<Str(ReservedName), ArgsNull>>}

(***************************************************************************)
(* The game state of server.js (lines 31-36).                              *)
(***************************************************************************)
\* the bound of the world log (server.js line 158)
WorldLogLimit == 50

\* gameState as the module creates it (server.js lines 31-36), together
\* with what the server process holds besides it: the keys of
\* gameState.artifacts in insertion order (the order of Object.values), the
\* property locationId of the global Object function (undefined until a
\* move assigns it), whether the http server listens, the souls of the
\* connected sockets, the number of lines of the bootstrap file still to be
\* processed, and the tool name and the result of the last one processed. A log line is the sequence of the parts its
\* template string is put together from.
EmptyWorld ==
    [locations |-> << >>, artifacts |-> << >>, artifactKeys |-> << >>,
     worldLog |-> << <<"Welcome to the Infinite MMORPG!">> >>,
     objectLocationId |-> "",
     listening |-> FALSE, sockets |-> {},
     remaining |-> 0, lineName |-> "", lineResult |-> << >>]

\* gameState.artifacts (server.js lines 96-108) after the bootstrap: the
\* boots are linked to move_soul and given to each player that connects,
\* the crown is given to nobody
Artifacts ==
    ("boots" :> [name |-> "Boots of Walking", linkedToolName |-> "move_soul"]) @@
    ("crown" :> [name |-> "Crown", linkedToolName |-> "move_soul"])

\* gameState.locations after the bootstrap: two locations and a path
BootLocations ==
    ("town_square" :> [name |-> "Town Square",
                       exits |-> ("north" :> "shady_alley")]) @@
    ("shady_alley" :> [name |-> "Shady Alley", exits |-> << >>])

\* gameState once the bootstrap file has created two locations, a path and
\* two artifacts (server.js lines 213-237); each creation has logged a line
BootWorld ==
    [EmptyWorld EXCEPT
       !.locations = BootLocations,
       !.artifacts = Artifacts,
       !.artifactKeys = <<"boots", "crown">>,
       !.worldLog =
          << <<"Welcome to the Infinite MMORPG!">>,
             <<"A new location called '", "Town Square", "' was discovered.">>,
             <<"A new location called '", "Shady Alley", "' was discovered.">>,
             <<"A path opened from ", "Town Square", " ", "North", " to ",
               "Shady Alley", ".">>,
             <<"A powerful artifact known as '", "Boots of Walking",
               "' has materialized.">>,
             <<"A powerful artifact known as '", "Crown",
               "' has materialized.">> >>,
       !.lineName = "create_artifact",
       !.lineResult = <<"Artifact '", "Crown", "' (ID: ", "crown",
                        ") created, linked to tool '", "move_soul", "'.">>]

\* array.includes(x)
includes(array, x) == \E i \in 1..Len(array) : array[i] = x

(***************************************************************************)
(* State.                                                                  *)
(***************************************************************************)
VARIABLES
    store,       \* the Chroma collection: id -> metadata of the record
    collection,  \* this.collection is set (initialize got the collection)
    calls,       \* per slot, the async call running in it
    started,     \* number of calls started so far
    souls,       \* gameState.souls of server.js: soulId -> soul
    world        \* gameState.locations, .artifacts and .worldLog

vars == <<store, collection, calls, started, souls, world>>

\* TOOL_CREATION_TOOL_DEFINITION.function.description (line 17)
ReservedDescription == "Define and create a new tool"

\* the descriptor of the reserved tool (lines 381-386, 420)
ReservedDescriptor ==
    [name |-> ReservedName, description |-> ReservedDescription,
     parameters |-> ReservedParameters]

\* the metadata written for the reserved tool (lines 191-197)
ReservedRecord ==
    [name |-> ReservedName, description |-> ReservedDescription,
     parameters_json |-> JSONstringify(ReservedParameters),
     code |-> <<"// Internal ToolCreationManager function:", ReservedName>>,
     is_internal |-> TRUE]

IdleCall ==
    [op |-> "idle", pc |-> "idle",
     name |-> Undef, description |-> Undef, parameters |-> SchemaUndef,
     toolName |-> Undef, args |-> ArgsUndef, count |-> 0, artifactId |-> "",
     generatedCode |-> <<>>, definition |-> {}, before |-> {},
     delegated |-> FALSE,
     status |-> "none", result |-> NoResult,
     providerCalls |-> 0, providerFailed |-> FALSE, providerText |-> {},
     getCalls |-> 0, embedCalls |-> 0, ranking |-> <<>>,
     actionResults |-> <<>>, actionsSent |-> 0,
     adds |-> 0, compiled |-> FALSE, invoked |-> FALSE, failed |-> FALSE,
     escaped |-> FALSE]

\* the manager as constructed (line 123: no collection yet), or as the
\* server holds it once its start-up initialize() has completed (server.js
\* line 524: the collection with the reserved record in it)
Init ==
    /\ \/ /\ store = << >>
          /\ collection = FALSE
       \/ /\ store = (ReservedName :> ReservedRecord)
          /\ collection = TRUE
    /\ calls = [s \in Slots |-> IdleCall]
    /\ started = 0
    /\ souls = << >>
    /\ world = EmptyWorld

Free(s) == calls[s].pc \in {"idle", "done"} /\ started < MaxCalls

\* the record stored under a name, as a set of at most one record
Stored(name) ==
    IF name.t = "str" /\ name.v \in DOMAIN store THEN {store[name.v]} ELSE {}

Begin(op) == [IdleCall EXCEPT !.op = op]

\* the call ends; the provider's answer and the generated code are held
\* only while createTool runs
Return(c, result) ==
    [c EXCEPT !.pc = "done", !.status = "returned", !.result = result,
              !.generatedCode = <<>>, !.providerText = {}]

Raise(c, message) ==
    [c EXCEPT !.pc = "done", !.status = "raised",
              !.result = ValueResult("error", message), !.failed = TRUE,
              !.generatedCode = <<>>, !.providerText = {}]

\* outcome of a request to a collaborator: a store request cannot succeed
\* while this.collection is null (the member access throws a TypeError)
StoreAnswers == IF collection THEN {TRUE, FALSE} ELSE {FALSE}

\* an add that replaces the record of an id already present (an upsert): a
\* variant of CollectionAdd under which the property of C13 must fail
CollectionAddUpsert(st, id, metadata, onDuplicate) ==
    [store |-> (id :> metadata) @@ st, ok |-> TRUE]

\* collection.add({ids: [id], metadatas: [metadata]}) that reaches the
\* store: a new id is inserted; for an id already present the store either
\* rejects the add (onDuplicate = "conflict") or ignores it ("ignore")
CollectionAdd(st, id, metadata, onDuplicate) ==
    IF id \in DOMAIN st
    THEN [store |-> st, ok |-> onDuplicate = "ignore"]
    ELSE [store |-> (id :> metadata) @@ st, ok |-> TRUE]


(***************************************************************************)
(* createTool (lines 209-306).                                             *)
(***************************************************************************)
\* generateToolCreationPrompt throws (lines 60-67): the schema check of
\* line 60, Object.entries of a null properties member, or .join of a
\* required member that is not an array
generateToolCreationPromptThrows(parameters) ==
    \/ Falsy(parameters)
    \/ TypeOf(parameters) # "object"
    \/ parameters.type # "object"
    \/ parameters.properties \notin {"map", "null"}
    \/ parameters.properties = "null"
    \/ parameters.required \notin {"absent", "list"}

\* the synchronous start of createTool, up to its first await (lines
\* 213-234): the outcome is an immediate return, a throw out of createTool,
\* or a request to the code provider
createToolPrefix(newToolName, newToolDescription, newToolParameters) ==
    IF Falsy(newToolName) \/ Falsy(newToolDescription) \/ Falsy(newToolParameters)
    THEN [k |-> "return",
          result |-> ErrorResult(<<"Missing required arguments for tool creation">>)]
    ELSE IF \/ TypeOf(newToolName) # "string"
            \/ TypeOf(newToolDescription) # "string"
            \/ TypeOf(newToolParameters) # "object"
    THEN [k |-> "return",
          result |-> ErrorResult(<<"Invalid argument types for tool creation.">>)]
    ELSE IF ~MatchesIdentifierGrammar(newToolName.v)
    THEN [k |-> "return",
          result |-> ErrorResult(<<"Invalid tool name", newToolName.v>>)]
    ELSE IF generateToolCreationPromptThrows(newToolParameters)
    THEN [k |-> "raise",
          result |-> ValueResult("error", <<"Invalid parameters schema provided for new tool creation.">>)]
    ELSE [k |-> "await", result |-> NoResult]

\* validation without the signature check: a variant of ValidatedCode under
\* which the property of C5 must fail
ValidatedCodeUnsigned(content, newToolName) ==
    LET trimmed == Trim(content)
        generatedCode == sanitizeGeneratedCode(trimmed, newToolName)
    IN  IF trimmed = <<>>
        THEN [ok |-> FALSE, code |-> trimmed]
        ELSE IF ~SyntaxOK(generatedCode)
        THEN [ok |-> FALSE, code |-> generatedCode]
        ELSE [ok |-> TRUE, code |-> generatedCode]

\* validation without the syntax check: a variant of ValidatedCode under
\* which the property of C14 must fail
ValidatedCodeUnparsed(content, newToolName) ==
    LET trimmed == Trim(content)
        generatedCode == sanitizeGeneratedCode(trimmed, newToolName)
    IN  IF trimmed = <<>>
        THEN [ok |-> FALSE, code |-> trimmed]
        ELSE IF /\ ~StartsWithSignature(generatedCode, newToolName, FALSE)
                /\ ~StartsWithSignature(generatedCode, newToolName, TRUE)
        THEN [ok |-> FALSE, code |-> generatedCode]
        ELSE [ok |-> TRUE, code |-> generatedCode]

\* lines 240-262: trim the answer, sanitize it, check the signature and the
\* syntax; ok is FALSE when one of them throws
ValidatedCode(content, newToolName) ==
    LET trimmed == Trim(content)
        generatedCode == sanitizeGeneratedCode(trimmed, newToolName)
    IN  IF trimmed = <<>>
        THEN [ok |-> FALSE, code |-> trimmed]
        ELSE IF /\ ~StartsWithSignature(generatedCode, newToolName, FALSE)
                /\ ~StartsWithSignature(generatedCode, newToolName, TRUE)
        THEN [ok |-> FALSE, code |-> generatedCode]
        ELSE IF ~SyntaxOK(generatedCode)
        THEN [ok |-> FALSE, code |-> generatedCode]
        ELSE [ok |-> TRUE, code |-> generatedCode]

\* the metadata createTool writes (lines 287-293)
GeneratedRecord(c) ==
    [name |-> c.name.v, description |-> c.description.v,
     parameters_json |-> JSONstringify(c.parameters),
     code |-> c.generatedCode, is_internal |-> FALSE]

\* a call enters createTool with (name, description, parameters); an
\* exception out of createTool is caught by executeTool when it delegated
\* (lines 450-453) and leaves the call otherwise
EnterCreateTool(c, newToolName, newToolDescription, newToolParameters) ==
    LET c1 == [c EXCEPT !.name = newToolName,
                        !.description = newToolDescription,
                        !.parameters = newToolParameters,
                        !.before = Stored(newToolName)]
        pre == createToolPrefix(newToolName, newToolDescription, newToolParameters)
    IN  CASE pre.k = "return" -> Return([c1 EXCEPT !.failed = TRUE], pre.result)
          [] pre.k = "raise"  ->
                IF c.delegated
                THEN Return([c1 EXCEPT !.failed = TRUE],
                            ErrorResult(<<"Failed to execute", ReservedName>>
                                        \o pre.result.text))
                ELSE Raise(c1, pre.result.text)
          [] OTHER -> [c1 EXCEPT !.pc = "ct_provider", !.providerCalls = @ + 1]

\* a direct call of createTool with arguments drawn from inputs
createTool_Call(s, inputs) ==
    /\ Free(s)
    /\ \E in \in inputs :
         calls' = [calls EXCEPT ![s] =
                     EnterCreateTool(Begin("createTool"), in[1], in[2], in[3])]
    /\ started' = started + 1
    /\ UNCHANGED <<world, souls, store, collection>>

createTool_Start(s) == createTool_Call(s, CreateInputs)

\* the catch of lines 265-268; the answer the call refused stays with its
\* result (the message quotes it)
\* a refused generation that asks the provider again: a variant of
\* GenerationError under which the property of C22 must fail
GenerationErrorRetries(c) ==
    [c EXCEPT !.pc = "ct_provider", !.providerCalls = @ + 1]

GenerationError(c) ==
    [Return([c EXCEPT !.failed = TRUE],
            ErrorResult(<<"Failed to generate or validate code for tool", c.name.v>>))
        EXCEPT !.providerText = c.providerText]

\* a commit step whose failure leaves createTool as an exception: a variant
\* of StoreError under which the property of C15 must fail
StoreErrorRaises(c) ==
    Raise(c, <<"Failed to store tool", c.name.v, "in database.">>)

StoreError(c) ==
    Return([c EXCEPT !.failed = TRUE],
           ErrorResult(<<"Failed to store tool", c.name.v, "in database.">>))

\* the provider answered (lines 234-268), then the existence check is
\* requested (line 274)
createTool_Generated(s) ==
    LET c == calls[s]
    IN  /\ c.pc = "ct_provider"
        /\ \/ calls' = [calls EXCEPT ![s] =
                          GenerationError([c EXCEPT !.providerFailed = TRUE])]
           \/ \E content \in ProviderAnswers(c.name.v) :
                LET v  == ValidatedCode(content, c.name.v)
                    c1 == [c EXCEPT !.generatedCode = v.code,
                                    !.providerText = {content}]
                    c2 == [c1 EXCEPT !.getCalls = @ + 1]
                IN  calls' = [calls EXCEPT ![s] =
                        IF ~v.ok THEN GenerationError(c1)
                        ELSE IF ~collection THEN StoreError(c2)
                        ELSE [c2 EXCEPT !.pc = "ct_get"]]
        /\ UNCHANGED <<world, souls, store, collection, started>>

\* an existence check whose answer is ignored: a variant of AlreadyExists
\* under which the property of C7 must fail
NeverExists(st, newToolName) == FALSE

\* an existence check that always finds a record: a variant of
\* AlreadyExists under which the property of C11 must fail
AlwaysExists(st, newToolName) == TRUE

\* existing && existing.ids && existing.ids.length > 0 (lines 162 and 275)
AlreadyExists(st, newToolName) == newToolName \in DOMAIN st

\* an existence check after which the add is issued at once, without the
\* embedding: a variant of createTool_Existing under which the property of
\* C23 must fail
createTool_ExistingThenAdd(s) ==
    LET c == calls[s]
    IN  /\ c.pc = "ct_get"
        /\ calls' = [calls EXCEPT ![s] = [c EXCEPT !.pc = "ct_add",
                                                   !.adds = @ + 1]]
        /\ UNCHANGED <<world, souls, store, collection, started>>

\* the existence check answered (lines 274-282)
createTool_Existing(s) ==
    LET c == calls[s]
    IN  /\ c.pc = "ct_get"
        /\ \E ok \in StoreAnswers :
             calls' = [calls EXCEPT ![s] =
                 IF ~ok THEN StoreError(c)
                 ELSE IF AlreadyExists(store, c.name.v)
                 THEN Return(c, StringResult(<<"Warning:", "Tool", c.name.v,
                                               "already existed. Creation skipped.">>))
                 ELSE [c EXCEPT !.pc = "ct_embed", !.embedCalls = @ + 1]]
        /\ UNCHANGED <<world, souls, store, collection, started>>

\* the embedding answered (lines 282-284)
createTool_Embedded(s) ==
    LET c == calls[s]
    IN  /\ c.pc = "ct_embed"
        /\ \E ok \in BOOLEAN :
             calls' = [calls EXCEPT ![s] =
                 IF ~ok THEN StoreError(c)
                 ELSE [c EXCEPT !.pc = "ct_add", !.adds = @ + 1]]
        /\ UNCHANGED <<world, souls, store, collection, started>>

\* a key that is fresh for every call (ids: [uuidv4()]): a variant of AddId
\* under which the property of C8 must fail
AddIdPerCall(s) == s

\* the key under which the call of slot s adds its record: ids:
\* [newToolName] (line 285)
AddId(s) == calls[s].name.v

\* collection.add answered (lines 284-305)
createTool_Added(s) ==
    LET c == calls[s]
    IN  /\ c.pc = "ct_add"
        /\ \/ /\ calls' = [calls EXCEPT ![s] = StoreError(c)]
              /\ store' = store
           \/ /\ collection
              /\ \E onDuplicate \in {"conflict", "ignore"} :
                   LET r == CollectionAdd(store, AddId(s), GeneratedRecord(c),
                                          onDuplicate)
                   IN  /\ store' = r.store
                       /\ calls' = [calls EXCEPT ![s] =
                             IF r.ok
                             THEN Return(c, StringResult(
                                     <<"Successfully created tool:", c.name.v>>))
                             ELSE StoreError(c)]
        /\ UNCHANGED <<world, souls, collection, started>>


(***************************************************************************)
(* getToolDefinition (lines 336-366) and executeTool (lines 426-538).      *)
(***************************************************************************)
\* the definition read from the store, as a set of at most one element;
\* ok is the store's answer (a failed get is caught and yields null)
\* a lookup that answers a missing record with a definition of empty code:
\* a variant of getToolDefinition under which the property of C17 must fail
getToolDefinitionLenient(st, toolName, ok) ==
    IF ok /\ toolName.t = "str" /\ toolName.v \in DOMAIN st
          /\ st[toolName.v].code # <<>>
    THEN {[name |-> st[toolName.v].name,
           description |-> st[toolName.v].description,
           parameters |-> JSONparse(st[toolName.v].parameters_json),
           code |-> st[toolName.v].code,
           is_internal |-> st[toolName.v].is_internal]}
    ELSE {[name |-> toolName.v, description |-> "",
           parameters |-> JSONparse(JSONstringify(SchemaEmpty)),
           code |-> <<>>, is_internal |-> FALSE]}

\* a lookup that reports every record as generated: a variant of
\* getToolDefinition under which the property of C18 must fail
getToolDefinitionUnflagged(st, toolName, ok) ==
    IF ~ok \/ toolName.t # "str" \/ toolName.v \notin DOMAIN st
    THEN {}
    ELSE IF st[toolName.v].code = <<>>
    THEN {}
    ELSE {[name |-> st[toolName.v].name,
           description |-> st[toolName.v].description,
           parameters |-> JSONparse(st[toolName.v].parameters_json),
           code |-> st[toolName.v].code,
           is_internal |-> FALSE]}

getToolDefinition(st, toolName, ok) ==
    IF ~ok \/ toolName.t # "str" \/ toolName.v \notin DOMAIN st
    THEN {}
    ELSE LET metadata == st[toolName.v]
         IN  IF metadata.code = <<>>
             THEN {}
             ELSE {[name |-> metadata.name,
                    description |-> metadata.description,
                    parameters |-> JSONparse(metadata.parameters_json),
                    code |-> metadata.code,
                    is_internal |-> metadata.is_internal]}

\* the required list the executor iterates over (line 479)
RequiredOf(schema) == IF schema.required = "list" THEN schema.req ELSE <<>>

\* the two checks of the reserved branch pass (lines 434-443)
ReservedArgsUsable(args) ==
    /\ ~RequiredCheckThrows(RequiredOf(ReservedParameters), args)
    /\ TypeOf(args.new_tool_name) = "string"
    /\ TypeOf(args.new_tool_description) = "string"
    /\ TypeOf(args.new_tool_parameters) = "object"

\* the reserved branch of executeTool (lines 430-454)
\* a reserved branch that delegates without looking at args: a variant of
\* ExecuteReserved under which the property of C16 must fail
ExecuteReservedUnchecked(c) ==
    EnterCreateTool([c EXCEPT !.delegated = TRUE],
                    c.args.new_tool_name, c.args.new_tool_description,
                    c.args.new_tool_parameters)

\* a reserved branch that hands the description over as the name: a
\* variant of ExecuteReserved under which the property of C25 must fail
ExecuteReservedSwapped(c) ==
    IF ReservedArgsUsable(c.args)
    THEN EnterCreateTool([c EXCEPT !.delegated = TRUE],
                         c.args.new_tool_description, c.args.new_tool_name,
                         c.args.new_tool_parameters)
    ELSE Return([c EXCEPT !.failed = TRUE],
                ErrorResult(<<"Failed to execute", ReservedName>>))

ExecuteReserved(c) ==
    LET args == c.args
    IN  IF RequiredCheckThrows(RequiredOf(ReservedParameters), args)
        THEN Return([c EXCEPT !.failed = TRUE],
                    ErrorResult(<<"Failed to execute", ReservedName,
                                  "Missing required parameter">>))
        ELSE IF \/ TypeOf(args.new_tool_name) # "string"
                \/ TypeOf(args.new_tool_description) # "string"
                \/ TypeOf(args.new_tool_parameters) # "object"
        THEN Return([c EXCEPT !.failed = TRUE],
                    ErrorResult(<<"Failed to execute", ReservedName,
                                  "Invalid parameter types for tool_creation.">>))
        ELSE EnterCreateTool([c EXCEPT !.delegated = TRUE],
                             args.new_tool_name, args.new_tool_description,
                             args.new_tool_parameters)

\* executeTool(toolName, args) up to its first await
ExecuteToolEntered(in) ==
    LET c == [Begin("executeTool") EXCEPT !.toolName = in[1],
                                          !.args = in[2],
                                          !.before = Stored(in[1])]
    IN  IF in[1] = Str(ReservedName)
        THEN ExecuteReserved(c)
        ELSE [c EXCEPT !.pc = "et_lookup", !.getCalls = @ + 1]

\* a call of executeTool with (toolName, args) drawn from inputs
executeTool_Call(s, inputs) ==
    /\ Free(s)
    /\ \E in \in inputs :
         calls' = [calls EXCEPT ![s] = ExecuteToolEntered(in)]
    /\ started' = started + 1
    /\ UNCHANGED <<world, souls, store, collection>>

executeTool_Start(s) == executeTool_Call(s, ExecuteInputs)

\* an executor that asks the code provider for a tool it does not find: a
\* variant of ExecuteDefinition under which the property of C37 must fail
ExecuteDefinitionRegenerates(c, definition) ==
    IF definition = {}
    THEN Return([c EXCEPT !.failed = TRUE, !.providerCalls = @ + 1],
                ErrorResult(<<"Tool", c.toolName.v,
                              "not found or definition is corrupted.">>))
    ELSE Return([c EXCEPT !.definition = definition, !.compiled = TRUE],
                ErrorResult(<<"Tool", c.toolName.v, "was not run.">>))

\* lines 457-538, once the store has answered the lookup
ExecuteDefinition(c, definition) ==
    IF definition = {}
    THEN Return([c EXCEPT !.failed = TRUE],
                ErrorResult(<<"Tool", c.toolName.v,
                              "not found or definition is corrupted.">>))
    ELSE LET d  == CHOOSE x \in definition : TRUE
             c1 == [c EXCEPT !.definition = definition]
         IN  IF d.is_internal
             THEN Return([c1 EXCEPT !.failed = TRUE],
                         ErrorResult(<<"Cannot execute internal tool",
                                       c.toolName.v, "directly.">>))
             ELSE IF RequiredCheckThrows(RequiredOf(d.parameters), c.args)
             THEN Return([c1 EXCEPT !.failed = TRUE],
                         ErrorResult(<<"Failed to execute tool", c.toolName.v,
                                       "Missing required parameter">>))
             ELSE LET r == RunWrapper(d.code, c.toolName.v, c.args)
                  IN  Return([c1 EXCEPT !.compiled = TRUE,
                                        !.invoked = r.invoked,
                                        !.failed = r.failed,
                                        !.escaped = r.escaped],
                             r.result)

\* a lookup that is requested again when the store fails to answer: a
\* variant of executeTool_Lookup under which the property of C24 must fail
executeTool_LookupRetries(s) ==
    LET c == calls[s]
    IN  /\ c.pc = "et_lookup"
        /\ \E ok \in StoreAnswers :
             calls' = [calls EXCEPT ![s] =
                 IF ok
                 THEN ExecuteDefinition(c, getToolDefinition(store, c.toolName, ok))
                 ELSE [c EXCEPT !.getCalls = @ + 1]]
        /\ UNCHANGED <<world, souls, store, collection, started>>

executeTool_Lookup(s) ==
    LET c == calls[s]
    IN  /\ c.pc = "et_lookup"
        /\ \E ok \in StoreAnswers :
             calls' = [calls EXCEPT ![s] =
                 ExecuteDefinition(c, getToolDefinition(store, c.toolName, ok))]
        /\ UNCHANGED <<world, souls, store, collection, started>>

(***************************************************************************)
(* getAvailableTools (lines 368-422).                                      *)
(***************************************************************************)
\* results of collection.query with nResults = count: the ids of up to
\* count records, in the store's rank order
Rankings(st, count) ==
    LET n == IF Cardinality(DOMAIN st) < count
             THEN Cardinality(DOMAIN st) ELSE count
    IN  {q \in [1..n -> DOMAIN st] : \A i, j \in 1..n : q[i] = q[j] => i = j}

\* a loop that skips nothing: a variant of IsReservedId under which the
\* property of C9 must fail
IsReservedIdNever(toolId) == FALSE

\* toolId === TOOL_CREATION_TOOL_DEFINITION.function.name (line 393)
IsReservedId(toolId) == toolId = ReservedName

\* a loop that puts each entry before the ones found earlier: a variant of
\* QueriedTools under which the property of C26 must fail
RECURSIVE QueriedToolsReversed(_, _, _)
QueriedToolsReversed(st, ids, i) ==
    IF i > Len(ids) THEN <<>>
    ELSE LET toolId == ids[i]
             metadata == st[toolId]
             rest == QueriedToolsReversed(st, ids, i + 1)
         IN  IF IsReservedId(toolId) \/ metadata.name = ""
                \/ metadata.description = ""
             THEN rest
             ELSE rest \o <<[name |-> metadata.name,
                              description |-> metadata.description,
                              parameters |-> JSONparse(metadata.parameters_json)]>>

\* the loop of lines 390-412 over the ranked ids from index i on
RECURSIVE QueriedTools(_, _, _)
QueriedTools(st, ids, i) ==
    IF i > Len(ids) THEN <<>>
    ELSE LET toolId == ids[i]
             metadata == st[toolId]
             rest == QueriedTools(st, ids, i + 1)
         IN  IF IsReservedId(toolId)
             THEN rest
             ELSE IF metadata.name # "" /\ metadata.description # ""
             THEN <<[name |-> metadata.name,
                     description |-> metadata.description,
                     parameters |-> JSONparse(metadata.parameters_json)]>>
                  \o rest
             ELSE rest

\* availableTools of lines 379-416
AvailableTools(st, ids) == <<ReservedDescriptor>> \o QueriedTools(st, ids, 1)

\* an empty fallback: a variant of FallbackTools under which the property
\* of C10 must fail
FallbackToolsEmpty == <<>>

\* the list returned from the catch block (line 420)
FallbackTools == <<ReservedDescriptor>>

getAvailableTools_Start(s) ==
    /\ Free(s)
    /\ \E count \in 0..MaxCount :
         calls' = [calls EXCEPT ![s] =
                     [Begin("getAvailableTools") EXCEPT !.count = count,
                                                        !.pc = "ga_embed",
                                                        !.embedCalls = 1]]
    /\ started' = started + 1
    /\ UNCHANGED <<world, souls, store, collection>>

\* the embedding of the context answered (line 371), then the query is
\* requested (line 373)
getAvailableTools_Embedded(s) ==
    LET c == calls[s]
    IN  /\ c.pc = "ga_embed"
        /\ \E ok \in BOOLEAN :
             calls' = [calls EXCEPT ![s] =
                 IF ~ok \/ ~collection
                 THEN Return([c EXCEPT !.failed = TRUE], ListResult(FallbackTools))
                 ELSE [c EXCEPT !.pc = "ga_query"]]
        /\ UNCHANGED <<world, souls, store, collection, started>>

\* the query answered (lines 373-421)
getAvailableTools_Queried(s) ==
    LET c == calls[s]
    IN  /\ c.pc = "ga_query"
        /\ \/ calls' = [calls EXCEPT ![s] =
                 Return([c EXCEPT !.failed = TRUE], ListResult(FallbackTools))]
           \/ \E ids \in Rankings(store, c.count) :
                calls' = [calls EXCEPT ![s] =
                    Return([c EXCEPT !.ranking = ids],
                           ListResult(AvailableTools(store, ids)))]
        /\ UNCHANGED <<world, souls, store, collection, started>>

(***************************************************************************)
(* initialize and ensureToolCreationTool (lines 134-205).                  *)
(***************************************************************************)
initialize_Start(s) ==
    /\ Free(s)
    /\ calls' = [calls EXCEPT ![s] =
                   [Begin("initialize") EXCEPT !.pc = "in_collection",
                                               !.name = Str(ReservedName)]]
    /\ started' = started + 1
    /\ UNCHANGED <<world, souls, store, collection>>

\* getOrCreateCollection answered (lines 139-149)
initialize_Collection(s) ==
    LET c == calls[s]
    IN  /\ c.pc = "in_collection"
        /\ \/ /\ calls' = [calls EXCEPT ![s] = Raise(c, <<"collection unavailable">>)]
              /\ collection' = collection
           \/ /\ calls' = [calls EXCEPT ![s] = [c EXCEPT !.pc = "in_get"]]
              /\ collection' = TRUE
        /\ UNCHANGED <<world, souls, store, started>>

\* the existence check of ensureToolCreationTool answered (lines 157-171):
\* a failed check is taken as "not found"; before is the record the store
\* holds when the check is answered
initialize_Existing(s) ==
    LET c == [calls[s] EXCEPT !.before = Stored(Str(ReservedName))]
    IN  /\ c.pc = "in_get"
        /\ \E ok \in BOOLEAN :
             calls' = [calls EXCEPT ![s] =
                 IF ok /\ AlreadyExists(store, ReservedName)
                 THEN Return(c, ValueResult("undefined", <<"undefined">>))
                 ELSE [c EXCEPT !.pc = "in_embed", !.embedCalls = @ + 1]]
        /\ UNCHANGED <<world, souls, store, collection, started>>

\* the embedding answered (line 186)
initialize_Embedded(s) ==
    LET c == calls[s]
    IN  /\ c.pc = "in_embed"
        /\ \E ok \in BOOLEAN :
             calls' = [calls EXCEPT ![s] =
                 IF ~ok THEN Raise(c, <<"embedding unavailable">>)
                 ELSE [c EXCEPT !.pc = "in_add", !.adds = @ + 1]]
        /\ UNCHANGED <<world, souls, store, collection, started>>

\* collection.add answered (lines 188-204)
initialize_Added(s) ==
    LET c == calls[s]
    IN  /\ c.pc = "in_add"
        /\ \/ /\ calls' = [calls EXCEPT ![s] = Raise(c, <<"add failed">>)]
              /\ store' = store
           \/ \E onDuplicate \in {"conflict", "ignore"} :
                LET r == CollectionAdd(store, ReservedName, ReservedRecord,
                                       onDuplicate)
                IN  /\ store' = r.store
                    /\ calls' = [calls EXCEPT ![s] =
                          IF r.ok
                          THEN Return(c, ValueResult("undefined", <<"undefined">>))
                          ELSE Raise(c, <<"add failed">>)]
        /\ UNCHANGED <<world, souls, collection, started>>

(***************************************************************************)
(* The program: calls start in free slots and advance at their awaits.     *)
(***************************************************************************)
Next ==
    \E s \in Slots :
        \/ initialize_Start(s)
        \/ initialize_Collection(s)
        \/ initialize_Existing(s)
        \/ initialize_Embedded(s)
        \/ initialize_Added(s)
        \/ createTool_Start(s)
        \/ createTool_Generated(s)
        \/ createTool_Existing(s)
        \/ createTool_Embedded(s)
        \/ createTool_Added(s)
        \/ executeTool_Start(s)
        \/ executeTool_Lookup(s)
        \/ getAvailableTools_Start(s)
        \/ getAvailableTools_Embedded(s)
        \/ getAvailableTools_Queried(s)

Spec == Init /\ [][Next]_vars

\* a record with is_internal true under a name other than the reserved one,
\* added to the collection by hand; its code is a function of its name
ManualRecord ==
    [name |-> ManualName, description |-> Description.v,
     parameters_json |-> JSONstringify(SchemaName),
     code |-> Fn(FALSE, ManualName, BodyHello),
     is_internal |-> TRUE]

\* the manager after initialize over a collection that holds the reserved
\* record and the record added by hand
InitManual ==
    /\ store = (ReservedName :> ReservedRecord) @@ (ManualName :> ManualRecord)
    /\ collection = TRUE
    /\ calls = [s \in Slots |-> IdleCall]
    /\ started = 0
    /\ souls = << >>
    /\ world = EmptyWorld

SpecManual == InitManual /\ [][Next]_vars

\* createTool calls that differ in the schema only: the schema of the
\* other inputs, a schema without required, and a schema with a member
\* whose value is undefined
SchemaInputs ==
    {<<Str("greet"), Description, SchemaName>>,
     <<Str("greet"), Description, SchemaEmpty>>,
     <<Str("greet"), Description, SchemaUndefMember>>}

createTool_StartSchema(s) == createTool_Call(s, SchemaInputs)

\* the manager after initialize
InitSchema ==
    /\ store = (ReservedName :> ReservedRecord)
    /\ collection = TRUE
    /\ calls = [s \in Slots |-> IdleCall]
    /\ started = 0
    /\ souls = << >>
    /\ world = EmptyWorld

\* creation with the schemas of SchemaInputs, and the two reads
NextSchema ==
    \E s \in Slots :
        \/ createTool_StartSchema(s)
        \/ createTool_Generated(s)
        \/ createTool_Existing(s)
        \/ createTool_Embedded(s)
        \/ createTool_Added(s)
        \/ executeTool_Start(s)
        \/ executeTool_Lookup(s)
        \/ getAvailableTools_Start(s)
        \/ getAvailableTools_Embedded(s)
        \/ getAvailableTools_Queried(s)

SpecSchema == InitSchema /\ [][NextSchema]_vars


\* executeTool calls of the reserved tool whose args have all three fields:
\* a new name, the reserved name as the new name, a name that is a number,
\* and a schema the prompt generation throws on
ReservedInputs ==
    {<<Str(ReservedName), ArgsNewTool(Str("greet"), Description, SchemaName)>>,
     <<Str(ReservedName), ArgsNewTool(Str(ReservedName), Description, SchemaName)>>,
     <<Str(ReservedName), ArgsNewTool(Num("7"), Description, SchemaName)>>,
     <<Str(ReservedName), ArgsNewTool(Str("greet"), Description, SchemaBadType)>>}

executeTool_StartReserved(s) == executeTool_Call(s, ReservedInputs)

\* the manager holding its collection (line 149), with the reserved record
\* in it, or without it: ensureToolCreationTool failed at its embedding or
\* its add (lines 186-204)
InitReserved ==
    /\ store \in {<< >>, (ReservedName :> ReservedRecord)}
    /\ collection = TRUE
    /\ calls = [s \in Slots |-> IdleCall]
    /\ started = 0
    /\ souls = << >>
    /\ world = EmptyWorld

\* calls of the reserved tool and the creations they delegate to
NextReserved ==
    \E s \in Slots :
        \/ executeTool_StartReserved(s)
        \/ createTool_Generated(s)
        \/ createTool_Existing(s)
        \/ createTool_Embedded(s)
        \/ createTool_Added(s)

SpecReserved == InitReserved /\ [][NextReserved]_vars


\* records createTool has stored for greet and move_soul
GreetRecord ==
    [name |-> "greet", description |-> Description.v,
     parameters_json |-> JSONstringify(SchemaName),
     code |-> TextHello, is_internal |-> FALSE]

MoveRecord ==
    [name |-> "move_soul", description |-> "Move a soul to a target location",
     parameters_json |-> JSONstringify(SchemaMove),
     code |-> TextMove, is_internal |-> FALSE]

\* a record added to the collection by hand with an empty description
DraftRecord ==
    [name |-> "draft", description |-> "",
     parameters_json |-> JSONstringify(SchemaEmpty),
     code |-> <<>>, is_internal |-> FALSE]

\* the manager after initialize and two creations, over a collection that
\* also holds the record added by hand
InitQuery ==
    /\ store = (ReservedName :> ReservedRecord) @@ ("greet" :> GreetRecord)
                @@ ("move_soul" :> MoveRecord) @@ ("draft" :> DraftRecord)
    /\ collection = TRUE
    /\ calls = [s \in Slots |-> IdleCall]
    /\ started = 0
    /\ souls = << >>
    /\ world = EmptyWorld

\* queries for the available tools
NextQuery ==
    \E s \in Slots :
        \/ getAvailableTools_Start(s)
        \/ getAvailableTools_Embedded(s)
        \/ getAvailableTools_Queried(s)

SpecQuery == InitQuery /\ [][NextQuery]_vars


\* records createTool has stored for tools whose function returns a
\* number, an object without prototype, and (being async) a promise
CountRecord ==
    [name |-> "count_souls", description |-> "Count the souls",
     parameters_json |-> JSONstringify(SchemaEmpty),
     code |-> Fn(FALSE, "count_souls", BodyNum), is_internal |-> FALSE]

FindRecord ==
    [name |-> "find_soul", description |-> "Find a soul by name",
     parameters_json |-> JSONstringify(SchemaName),
     code |-> Fn(FALSE, "find_soul", BodyBare), is_internal |-> FALSE]

AsyncGreetRecord ==
    [name |-> "greet", description |-> Description.v,
     parameters_json |-> JSONstringify(SchemaName),
     code |-> TextAsyncHello, is_internal |-> FALSE]

\* (toolName, args) of calls of these tools
ConvertInputs ==
    {<<Str("count_souls"), ArgsEmpty>>,
     <<Str("count_souls"), ArgsAria>>,
     <<Str("find_soul"), ArgsAria>>,
     <<Str("find_soul"), ArgsEmpty>>,
     <<Str("greet"), ArgsAria>>,
     <<Str("greet"), ArgsEmpty>>,
     <<Str("move_soul"), ArgsAria>>,
     <<Str("does_not_exist"), ArgsEmpty>>}

executeTool_StartConvert(s) == executeTool_Call(s, ConvertInputs)

\* the manager after initialize and four creations
InitConvert ==
    /\ store = (ReservedName :> ReservedRecord) @@ ("greet" :> AsyncGreetRecord)
                @@ ("move_soul" :> MoveRecord) @@ ("count_souls" :> CountRecord)
                @@ ("find_soul" :> FindRecord)
    /\ collection = TRUE
    /\ calls = [s \in Slots |-> IdleCall]
    /\ started = 0
    /\ souls = << >>
    /\ world = EmptyWorld

\* executions of the stored tools
NextConvert ==
    \E s \in Slots :
        \/ executeTool_StartConvert(s)
        \/ executeTool_Lookup(s)

SpecConvert == InitConvert /\ [][NextConvert]_vars


\* records whose code no longer binds the function of their name: the code
\* of greet declares greet_all, the code of escape declares greet
UnboundGreetRecord ==
    [name |-> "greet", description |-> Description.v,
     parameters_json |-> JSONstringify(SchemaName),
     code |-> TextOtherName, is_internal |-> FALSE]

UnboundEscapeRecord ==
    [name |-> "escape", description |-> "Escape from the current location",
     parameters_json |-> JSONstringify(SchemaEmpty),
     code |-> TextHello, is_internal |-> FALSE]

\* (toolName, args) of calls of these tools and of an intact one
UnboundInputs ==
    {<<Str("greet"), ArgsAria>>,
     <<Str("greet"), ArgsEmpty>>,
     <<Str("escape"), ArgsAria>>,
     <<Str("escape"), ArgsEmpty>>,
     <<Str("escape"), ArgsNull>>,
     <<Str("move_soul"), ArgsAria>>,
     <<Str("move_soul"), ArgsEmpty>>,
     <<Str("does_not_exist"), ArgsEmpty>>}

executeTool_StartUnbound(s) == executeTool_Call(s, UnboundInputs)

\* the manager after initialize, over a collection in which the code of two
\* records has been replaced
InitUnbound ==
    /\ store = (ReservedName :> ReservedRecord) @@ ("greet" :> UnboundGreetRecord)
                @@ ("escape" :> UnboundEscapeRecord) @@ ("move_soul" :> MoveRecord)
    /\ collection = TRUE
    /\ calls = [s \in Slots |-> IdleCall]
    /\ started = 0
    /\ souls = << >>
    /\ world = EmptyWorld

\* executions of the stored tools
NextUnbound ==
    \E s \in Slots :
        \/ executeTool_StartUnbound(s)
        \/ executeTool_Lookup(s)

SpecUnbound == InitUnbound /\ [][NextUnbound]_vars


(***************************************************************************)
(* The server (server.js): the game state and the performAction handler.   *)
(***************************************************************************)
\* the soul of the connected player (server.js lines 276-284)
PlayerSoulId == "player_soul"

MoveDescription == Str("Move a soul to a target location")

\* CREATE TOOL lines of the initial prompt (server.js lines 182-201)
PromptTools ==
    {<<Str(ReservedName),
       ArgsNewTool(Str("move_soul"), MoveDescription, SchemaMove)>>}

\* processInitialPrompt creates a tool through the reserved branch of
\* executeTool (server.js lines 197-201)
processInitialPrompt_CreateTool(s) == executeTool_Call(s, PromptTools)

\* args of a performAction event: none, or a target location
NoArgs == [ArgsEmpty EXCEPT !.t = "undef"]
TargetArgs == [ArgsEmpty EXCEPT !.targetLocationId = Str("shady_alley")]

\* data of performAction events: {artifactId, args}
ActionInputs ==
    {[artifactId |-> a, args |-> x] :
        a \in {"boots", "crown", "ghost", ""}, x \in {NoArgs, TargetArgs}}

\* {soulId, locationId, ...(args || {})} (server.js lines 362-366): the
\* members args brings replace those of the same name
ToolArgs(soulId, locationId, args) ==
    LET given == IF args.t = "obj" THEN args ELSE ArgsEmpty
    IN  [given EXCEPT
           !.soulId = IF given.soulId.t = "undef" THEN Str(soulId) ELSE @,
           !.locationId = IF given.locationId.t = "undef"
                          THEN Str(locationId) ELSE @]

\* socket.emit('actionResult', {success, message})
Emit(c, success, message) ==
    [c EXCEPT !.actionResults =
                 Append(@, [success |-> success, message |-> message])]

\* a handler whose catch block also runs after the result has been
\* emitted: a variant of ReportResult under which the property of C32 must
\* fail
ReportResultTwice(c) ==
    IF c.pc # "done" THEN c
    ELSE [Emit(Emit(c, ~StartsWithError(c.result), c.result.text), FALSE,
               <<"A critical error occurred while performing the action.">>)
            EXCEPT !.actionsSent = @ + 1]

\* the handler once executeTool has returned executionResult (server.js
\* lines 372-407): executionResult.startsWith throws for a value that is
\* not a string, and the catch block then emits the failure; the available
\* actions are sent on every path
ReportResult(c) ==
    IF c.pc # "done" THEN c
    ELSE IF c.result.t = "string"
    THEN [Emit(c, ~StartsWithError(c.result), c.result.text)
            EXCEPT !.actionsSent = @ + 1]
    ELSE [Emit(c, FALSE,
               <<"A critical error occurred while performing the action.">>)
            EXCEPT !.actionsSent = @ + 1]

\* the handler returns after telling the client why (server.js lines
\* 335-358)
\* a handler that goes on to the tool of the boots after a failed check: a
\* variant of ActionRefused under which the property of C21 must fail
ActionRefusedRuns(c, message) ==
    [c EXCEPT !.toolName = Str("move_soul"), !.pc = "pa_execute"]

ActionRefused(c, message) ==
    Return([c EXCEPT !.failed = TRUE], ValueResult("undefined", message))

\* the performAction handler of the socket of soulId up to its await of
\* executeTool (server.js lines 331-372, tool_creation_tool.js lines
\* 426-457)
performAction_From(s, soulId) ==
    /\ Free(s)
    /\ \E data \in ActionInputs :
         LET c == [Begin("performAction") EXCEPT !.artifactId = data.artifactId]
             artifactId == data.artifactId
         IN  calls' = [calls EXCEPT ![s] =
                 IF soulId \notin DOMAIN souls
                 THEN ActionRefused(c, <<"soul not found">>)
                 ELSE IF artifactId = ""
                 THEN ActionRefused(c, <<"no artifactId">>)
                 ELSE IF \/ ~includes(souls[soulId].inventory, artifactId)
                         \/ artifactId \notin DOMAIN world.artifacts
                 THEN ActionRefused(Emit(c, FALSE, <<"You don't have the required artifact">>),
                                    <<"artifact not possessed">>)
                 ELSE IF world.artifacts[artifactId].linkedToolName = ""
                 THEN ActionRefused(Emit(c, FALSE, <<"Artifact seems inert.">>),
                                    <<"artifact inert">>)
                 ELSE LET toolName == Str(world.artifacts[artifactId].linkedToolName)
                          c1 == [c EXCEPT
                                   !.toolName = toolName,
                                   !.args = ToolArgs(soulId,
                                                     souls[soulId].locationId,
                                                     data.args),
                                   !.before = Stored(toolName)]
                      IN  IF toolName = Str(ReservedName)
                          THEN ReportResult(ExecuteReserved(c1))
                          ELSE [c1 EXCEPT !.pc = "pa_execute",
                                          !.getCalls = @ + 1]]
    /\ started' = started + 1
    /\ UNCHANGED <<world, souls, store, collection>>

\* a performAction event of the connected player
performAction_Start(s) == performAction_From(s, PlayerSoulId)

\* executeTool answers and the handler reports the result (server.js lines
\* 372-407, tool_creation_tool.js lines 457-538): the result string is
\* emitted and the state is broadcast; nothing is assigned to gameState,
\* and the code the executor compiles is given params only
performAction_Executed(s) ==
    LET c == calls[s]
    IN  /\ c.pc = "pa_execute"
        /\ \E ok \in StoreAnswers :
             calls' = [calls EXCEPT ![s] =
                 ReportResult(
                    ExecuteDefinition(c, getToolDefinition(store, c.toolName, ok)))]
        /\ UNCHANGED <<world, souls, store, collection, started>>

\* gameState.souls once the player has connected (server.js lines 276-299)
ConnectedSouls ==
    (PlayerSoulId :> [name |-> "Player", locationId |-> "town_square",
                      inventory |-> <<"boots">>, type |-> "player"])

\* the world once the server listens and the player has connected
ConnectedWorld ==
    [BootWorld EXCEPT
       !.listening = TRUE,
       !.sockets = {PlayerSoulId},
       !.worldLog = @ \o << <<"A new soul named '", "Player",
                               "' appeared in ", "Town Square", ".">>,
                             <<"Player", " obtained the artifact '",
                               "Boots of Walking", "'.">> >>]

\* the server after its start-up and the connection of one player, who
\* stands in the town square and owns the boots (server.js lines 276-299,
\* 521-530)
InitServer ==
    /\ store = (ReservedName :> ReservedRecord)
    /\ collection = TRUE
    /\ calls = [s \in Slots |-> IdleCall]
    /\ started = 0
    /\ souls = ConnectedSouls
    /\ world = ConnectedWorld

NextServer ==
    \E s \in Slots :
        \/ processInitialPrompt_CreateTool(s)
        \/ createTool_Generated(s)
        \/ createTool_Existing(s)
        \/ createTool_Embedded(s)
        \/ createTool_Added(s)
        \/ performAction_Start(s)
        \/ performAction_Executed(s)

SpecServer == InitServer /\ [][NextServer]_vars


(***************************************************************************)
(* The game world (server.js lines 49-163): the built-in game functions.   *)
(***************************************************************************)
\* a log that drops its newest entry when it is full: a variant of
\* logToWorld under which the property of C38 must fail
logToWorldKeepsOldest(log, message) ==
    LET pushed == Append(log, message)
    IN  IF Len(pushed) > WorldLogLimit
        THEN SubSeq(pushed, 1, Len(pushed) - 1)
        ELSE pushed

\* logToWorld (server.js lines 155-163): push, then shift when the log
\* holds more than 50 entries
logToWorld(log, message) ==
    LET pushed == Append(log, message)
    IN  IF Len(pushed) > WorldLogLimit THEN Tail(pushed) ELSE pushed

\* the keys every plain object inherits from Object.prototype; the model
\* carries one of them. gameState.locations['constructor'] and its like
\* evaluate to the global Object function: a truthy value whose name is
\* 'Object' and that has no exits and no inventory
ProtoKeys == {"constructor"}

\* obj[key] is truthy: key is one of obj's own keys (every record stored in
\* gameState is truthy) or an inherited one
Truthy(obj, key) == key \in DOMAIN obj \/ key \in ProtoKeys

\* gameState.locations[locationId].name, for a truthy entry
LocationName(w, locationId) ==
    IF locationId \in DOMAIN w.locations
    THEN w.locations[locationId].name
    ELSE "Object"

\* gameState.artifacts[artifactId].name, for a truthy entry
ArtifactName(w, artifactId) ==
    IF artifactId \in DOMAIN w.artifacts
    THEN w.artifacts[artifactId].name
    ELSE "Object"

\* str.toLowerCase(), over the directions the bootstrap lines use
toLowerCase(str) ==
    CASE str = "North" -> "north"
      [] str = "South" -> "south"
      [] str = "East"  -> "east"
      [] str = "West"  -> "west"
      [] OTHER         -> str

\* name.toLowerCase().replace(/\s+/g, '_') (server.js line 72), over the
\* location names the bootstrap lines use: a run of white space becomes
\* one underscore, so different names can yield the same id
LocationIdOf(name) ==
    CASE name = "Town Square"  -> "town_square"
      [] name = "town  square" -> "town_square"
      [] name = "Shady Alley"  -> "shady_alley"
      [] OTHER                 -> name

\* the params object of a built-in game function: a member that is absent
\* or the empty string is "" (both are falsy, and every member is tested
\* with ! before it is used)
NoParams ==
    [name |-> "", description |-> "", locationId |-> "", type |-> "",
     fromLocationId |-> "", direction |-> "", toLocationId |-> "",
     linkedToolName |-> "", soulId |-> "", artifactId |-> "",
     targetLocationId |-> ""]

\* what a call of a built-in game function leaves behind: the game state,
\* and the string it returned or the fact that it threw a TypeError
Returned(sl, w, result) ==
    [souls |-> sl, world |-> w, result |-> result, threw |-> FALSE]
Threw(sl, w) ==
    [souls |-> sl, world |-> w, result |-> << >>, threw |-> TRUE]

\* result.startsWith("Error:") for the string a game function returned
IsError(result) == result # << >> /\ result[1] = "Error: "

\* _internal_create_soul (server.js lines 53-67); soulId is the value of
\* uuidv4()
internal_create_soul(sl, w, params, soulId) ==
    IF params.name = "" \/ params.locationId = ""
    THEN Returned(sl, w, <<"Error: ", "Missing name or locationId for create_soul.">>)
    ELSE IF ~Truthy(w.locations, params.locationId)
    THEN Returned(sl, w, <<"Error: ", "Location '", params.locationId, "' not found.">>)
    ELSE Returned(
           (soulId :> [name |-> params.name,
                       locationId |-> params.locationId,
                       inventory |-> << >>,
                       type |-> IF params.type = "" THEN "generic"
                                ELSE params.type]) @@ sl,
           [w EXCEPT !.worldLog =
               logToWorld(@, <<"A new soul named '", params.name,
                               "' appeared in ",
                               LocationName(w, params.locationId), ".">>)],
           <<"Soul '", params.name, "' (ID: ", soulId,
             ") created successfully at location ", params.locationId, ".">>)

\* a function that records the discovery in the log before it finds that
\* the id is taken: a variant of internal_create_location under which the
\* property of C36 must fail
internal_create_location_LogsFirst(sl, w, params) ==
    IF params.name = "" \/ params.description = ""
    THEN Returned(sl, w, <<"Error: ", "Missing name or description for create_location.">>)
    ELSE LET locationId == LocationIdOf(params.name)
             logged == [w EXCEPT !.worldLog =
                          logToWorld(@, <<"A new location called '",
                                          params.name, "' was discovered.">>)]
         IN  IF Truthy(w.locations, locationId)
             THEN Returned(sl, logged, <<"Error: ", "Location with ID '",
                                         locationId, "' already exists.">>)
             ELSE Returned(sl,
                    [logged EXCEPT
                       !.locations = (locationId :> [name |-> params.name,
                                                     exits |-> << >>]) @@ @],
                    <<"Location '", params.name, "' (ID: ", locationId,
                      ") created successfully.">>)

\* _internal_create_location (server.js lines 69-82)
internal_create_location(sl, w, params) ==
    IF params.name = "" \/ params.description = ""
    THEN Returned(sl, w, <<"Error: ", "Missing name or description for create_location.">>)
    ELSE LET locationId == LocationIdOf(params.name)
         IN  IF Truthy(w.locations, locationId)
             THEN Returned(sl, w, <<"Error: ", "Location with ID '", locationId,
                                    "' already exists.">>)
             ELSE Returned(sl,
                    [w EXCEPT
                       !.locations = (locationId :> [name |-> params.name,
                                                     exits |-> << >>]) @@ @,
                       !.worldLog =
                          logToWorld(@, <<"A new location called '",
                                          params.name, "' was discovered.">>)],
                    <<"Location '", params.name, "' (ID: ", locationId,
                      ") created successfully.">>)

\* _internal_link_exit (server.js lines 84-93): the assignment to
\* .exits[...] throws when the origin is an inherited entry, which has no
\* exits
internal_link_exit(sl, w, params) ==
    IF params.fromLocationId = "" \/ params.direction = "" \/ params.toLocationId = ""
    THEN Returned(sl, w, <<"Error: ", "Missing parameters for link_exit.">>)
    ELSE IF ~Truthy(w.locations, params.fromLocationId)
    THEN Returned(sl, w, <<"Error: ", "Origin location '", params.fromLocationId,
                           "' not found.">>)
    ELSE IF ~Truthy(w.locations, params.toLocationId)
    THEN Returned(sl, w, <<"Error: ", "Destination location '",
                           params.toLocationId, "' not found.">>)
    ELSE IF params.fromLocationId \notin DOMAIN w.locations
    THEN Threw(sl, w)
    ELSE Returned(sl,
           [w EXCEPT
              !.locations[params.fromLocationId].exits =
                  (toLowerCase(params.direction) :> params.toLocationId) @@ @,
              !.worldLog =
                  logToWorld(@, <<"A path opened from ",
                                  LocationName(w, params.fromLocationId), " ",
                                  params.direction, " to ",
                                  LocationName(w, params.toLocationId), ".">>)],
           <<"Exit '", params.direction, "' added from ",
             params.fromLocationId, " to ", params.toLocationId, ".">>)

\* _internal_create_artifact (server.js lines 96-108); artifactId is the
\* value of uuidv4()
internal_create_artifact(sl, w, params, artifactId) ==
    IF params.name = "" \/ params.description = "" \/ params.linkedToolName = ""
    THEN Returned(sl, w, <<"Error: ", "Missing name, description, or linkedToolName for create_artifact.">>)
    ELSE Returned(sl,
           [w EXCEPT
              !.artifacts = (artifactId :> [name |-> params.name,
                                            linkedToolName |-> params.linkedToolName]) @@ @,
              !.artifactKeys = Append(@, artifactId),
              !.worldLog =
                  logToWorld(@, <<"A powerful artifact known as '",
                                  params.name, "' has materialized.">>)],
           <<"Artifact '", params.name, "' (ID: ", artifactId,
             ") created, linked to tool '", params.linkedToolName, "'.">>)

\* a function that pushes the artifact without looking for it in the
\* inventory: a variant of internal_give_artifact_to_soul under which the
\* property of C35 must fail
internal_give_artifact_Unchecked(sl, w, params) ==
    IF \/ params.soulId \notin DOMAIN sl
       \/ params.artifactId \notin DOMAIN w.artifacts
    THEN Returned(sl, w, <<"Error: ", "Soul or artifact not found.">>)
    ELSE Returned(
           [sl EXCEPT ![params.soulId].inventory = Append(@, params.artifactId)],
           [w EXCEPT !.worldLog =
               logToWorld(@, <<sl[params.soulId].name,
                               " obtained the artifact '",
                               ArtifactName(w, params.artifactId), "'.">>)],
           <<"Artifact '", ArtifactName(w, params.artifactId),
             "' given to soul '", sl[params.soulId].name, "'.">>)

\* _internal_give_artifact_to_soul (server.js lines 111-124): reading
\* .inventory.includes throws when the soul is an inherited entry, which
\* has no inventory
internal_give_artifact_to_soul(sl, w, params) ==
    IF params.soulId = "" \/ params.artifactId = ""
    THEN Returned(sl, w, <<"Error: ", "Missing soulId or artifactId for give_artifact.">>)
    ELSE IF ~Truthy(sl, params.soulId)
    THEN Returned(sl, w, <<"Error: ", "Soul '", params.soulId, "' not found.">>)
    ELSE IF ~Truthy(w.artifacts, params.artifactId)
    THEN Returned(sl, w, <<"Error: ", "Artifact '", params.artifactId,
                           "' not found.">>)
    ELSE IF params.soulId \notin DOMAIN sl
    THEN Threw(sl, w)
    ELSE IF ~includes(sl[params.soulId].inventory, params.artifactId)
    THEN Returned(
           [sl EXCEPT ![params.soulId].inventory = Append(@, params.artifactId)],
           [w EXCEPT !.worldLog =
               logToWorld(@, <<sl[params.soulId].name,
                               " obtained the artifact '",
                               ArtifactName(w, params.artifactId), "'.">>)],
           <<"Artifact '", ArtifactName(w, params.artifactId),
             "' given to soul '", sl[params.soulId].name, "'.">>)
    ELSE Returned(sl, w,
           <<"Warning: ", "Soul '", sl[params.soulId].name,
             "' already possesses artifact '",
             ArtifactName(w, params.artifactId), "'.">>)

\* _internal_move_soul (server.js lines 126-149): for an inherited soulId
\* the soul is the global Object function, whose name is 'Object' and whose
\* locationId the assignment of line 146 sets
internal_move_soul(sl, w, params) ==
    IF params.soulId = "" \/ params.targetLocationId = ""
    THEN Returned(sl, w, <<"Error: ", "Missing soulId or targetLocationId for move_soul.">>)
    ELSE IF ~Truthy(sl, params.soulId)
    THEN Returned(sl, w, <<"Error: ", "Soul '", params.soulId, "' not found.">>)
    ELSE IF ~Truthy(w.locations, params.targetLocationId)
    THEN Returned(sl, w, <<"Error: ", "Target location '",
                           params.targetLocationId, "' not found.">>)
    ELSE LET own  == params.soulId \in DOMAIN sl
             soulName == IF own THEN sl[params.soulId].name ELSE "Object"
             from == IF own THEN sl[params.soulId].locationId
                     ELSE w.objectLocationId
             oldLocationName ==
                 IF from # "" /\ Truthy(w.locations, from)
                 THEN LocationName(w, from)
                 ELSE "an unknown place"
             targetName == LocationName(w, params.targetLocationId)
             w1 == [w EXCEPT !.worldLog =
                       logToWorld(@, <<soulName, " moved from ",
                                       oldLocationName, " to ", targetName,
                                       ".">>)]
         IN  Returned(
               IF own
               THEN [sl EXCEPT ![params.soulId].locationId = params.targetLocationId]
               ELSE sl,
               IF own THEN w1
               ELSE [w1 EXCEPT !.objectLocationId = params.targetLocationId],
               <<soulName, " moved successfully to ", targetName, ".">>)


(***************************************************************************)
(* The game server (server.js): bootstrap lines, connections, actions.     *)
(***************************************************************************)
\* a switch without the case for move_soul: a variant of IsInternalName
\* under which the property of C33 must fail
IsInternalNameNoMove(name) ==
    name \in {"create_soul", "create_location", "link_exit",
              "create_artifact", "give_artifact_to_soul"}

\* the cases of the switch over the tool name (server.js lines 226-233)
IsInternalName(name) ==
    name \in {"create_soul", "create_location", "link_exit",
              "create_artifact", "give_artifact_to_soul", "move_soul"}

\* the values uuidv4() can return for a soul and for an artifact
SoulIds == {"player_soul", "other_soul"}
ArtifactIds == {"boots", "crown"}

\* the values uuidv4() can return in a call of the named function: an id
\* not yet in use; "" for the functions that do not call it
FreshIds(name) ==
    CASE name = "create_soul"     -> SoulIds \ DOMAIN souls
      [] name = "create_artifact" -> ArtifactIds \ DOMAIN world.artifacts
      [] OTHER                    -> {""}

\* the built-in function the switch calls for a name (server.js lines
\* 227-232)
RunInternal(name, sl, w, params, id) ==
    CASE name = "create_soul"     -> internal_create_soul(sl, w, params, id)
      [] name = "create_location" -> internal_create_location(sl, w, params)
      [] name = "link_exit"       -> internal_link_exit(sl, w, params)
      [] name = "create_artifact" -> internal_create_artifact(sl, w, params, id)
      [] name = "give_artifact_to_soul" ->
                                     internal_give_artifact_to_soul(sl, w, params)
      [] OTHER                    -> internal_move_soul(sl, w, params)

\* the members of the parsed args a generated tool is given
ToolArgsOf(params) ==
    [ArgsEmpty EXCEPT
       !.name = IF params.name = "" THEN Undef ELSE Str(params.name),
       !.soulId = IF params.soulId = "" THEN Undef ELSE Str(params.soulId),
       !.targetLocationId = IF params.targetLocationId = "" THEN Undef
                            ELSE Str(params.targetLocationId)]

\* no call of the tool manager is in flight
Quiet == \A s \in Slots : calls[s].pc \in {"idle", "done"}

\* one EXECUTE TOOL line of the bootstrap file (server.js lines 213-253),
\* drawn from inputs: a name of the switch runs the built-in function, whose
\* TypeError the try block of the line catches; any other name is passed to
\* executeTool, which the line awaits. Lines are processed one after the
\* other, before the server listens.
processInitialPrompt_ExecuteTool(s, inputs) ==
    /\ ~world.listening
    /\ world.remaining > 0
    /\ Quiet
    /\ \E line \in inputs :
         IF IsInternalName(line.name)
         THEN /\ \E id \in FreshIds(line.name) :
                   LET r == RunInternal(line.name, souls, world, line.params, id)
                   IN  /\ souls' = r.souls
                       /\ world' = [r.world EXCEPT
                                      !.remaining = @ - 1,
                                      !.lineName = line.name,
                                      !.lineResult = r.result]
              /\ UNCHANGED <<store, collection, calls, started>>
         ELSE /\ started < MaxCalls
              /\ calls' = [calls EXCEPT ![s] =
                            ExecuteToolEntered(<<Str(line.name),
                                                 ToolArgsOf(line.params)>>)]
              /\ started' = started + 1
              /\ world' = [world EXCEPT !.remaining = @ - 1,
                                        !.lineName = line.name,
                                        !.lineResult = << >>]
              /\ UNCHANGED <<souls, store, collection>>

\* httpServer.listen, once the bootstrap file has been processed (server.js
\* lines 526-557)
main_Listen ==
    /\ ~world.listening
    /\ world.remaining = 0
    /\ Quiet
    /\ world' = [world EXCEPT !.listening = TRUE]
    /\ UNCHANGED <<souls, store, collection, calls, started>>

\* the artifacts a new player is given (server.js lines 291-292)
StartingArtifactNames == {"Boots of Walking", "Amulet of Observation"}

\* startingArtifacts.forEach(...) (server.js lines 294-299) over the keys
\* of gameState.artifacts in insertion order
RECURSIVE GiveStartingArtifacts(_, _, _, _)
GiveStartingArtifacts(sl, w, soulId, keys) ==
    IF keys = << >> THEN [souls |-> sl, world |-> w]
    ELSE IF w.artifacts[Head(keys)].name \in StartingArtifactNames
    THEN LET r == internal_give_artifact_to_soul(
                     sl, w, [NoParams EXCEPT !.soulId = soulId,
                                             !.artifactId = Head(keys)])
         IN  GiveStartingArtifacts(r.souls, r.world, soulId, Tail(keys))
    ELSE GiveStartingArtifacts(sl, w, soulId, Tail(keys))

\* the connection handler (server.js lines 268-317): a soul is created in
\* the town square, marked as a player and given the starting artifacts;
\* when the creation fails the socket is disconnected and nothing else
\* happens
connection ==
    /\ world.listening
    /\ \E soulId \in SoulIds \ DOMAIN souls :
         LET r == internal_create_soul(
                     souls, world,
                     [NoParams EXCEPT !.name = "Player",
                                      !.locationId = "town_square"],
                     soulId)
         IN  IF IsError(r.result)
             THEN UNCHANGED <<souls, world>>
             ELSE LET g == GiveStartingArtifacts(
                              [r.souls EXCEPT ![soulId].type = "player"],
                              r.world, soulId, r.world.artifactKeys)
                  IN  /\ souls' = g.souls
                      /\ world' = [g.world EXCEPT !.sockets = @ \cup {soulId}]
    /\ UNCHANGED <<store, collection, calls, started>>

\* the disconnect handler (server.js lines 320-329)
disconnect ==
    /\ \E soulId \in world.sockets :
         world' = [world EXCEPT
                     !.sockets = @ \ {soulId},
                     !.worldLog = logToWorld(@, <<souls[soulId].name,
                                                  " has disconnected.">>)]
    /\ UNCHANGED <<souls, store, collection, calls, started>>

\* a performAction event on the socket of a connected player
performAction_Connected(s) ==
    \E soulId \in world.sockets : performAction_From(s, soulId)

Described == "A place"

\* EXECUTE TOOL lines of a bootstrap file: for each built-in function a
\* line that succeeds and lines that fail, with ids that exist, that no
\* object holds, and that every object inherits; and a line for a
\* generated tool. The ids uuidv4() produces while the file is processed
\* cannot occur in the file.
GameLines ==
    {[name |-> "create_soul",
      params |-> [NoParams EXCEPT !.name = "Guard", !.locationId = l]] :
        l \in {"town_square", "constructor", "nowhere", ""}}
    \cup
    {[name |-> "create_location",
      params |-> [NoParams EXCEPT !.name = n, !.description = d]] :
        n \in {"Town Square", "town  square"}, d \in {Described, ""}}
    \cup
    {[name |-> "link_exit",
      params |-> [NoParams EXCEPT !.fromLocationId = f, !.direction = d,
                                  !.toLocationId = t]] :
        f \in {"town_square", "constructor"}, d \in {"North", ""},
        t \in {"town_square", "constructor", "nowhere"}}
    \cup
    {[name |-> "create_artifact",
      params |-> [NoParams EXCEPT !.name = "Boots of Walking",
                                  !.description = Described,
                                  !.linkedToolName = t]] :
        t \in {"move_soul", ""}}
    \cup
    {[name |-> "give_artifact_to_soul",
      params |-> [NoParams EXCEPT !.soulId = so, !.artifactId = a]] :
        so \in {"constructor", "ghost", ""}, a \in {"constructor", "ghost"}}
    \cup
    {[name |-> "move_soul",
      params |-> [NoParams EXCEPT !.soulId = so, !.targetLocationId = t]] :
        so \in {"constructor", "ghost", ""},
        t \in {"town_square", "constructor", "nowhere"}}
    \cup
    {[name |-> "greet", params |-> [NoParams EXCEPT !.name = "Ann"]]}

\* the server from the start of main(): the manager initialized, the tool
\* move_soul generated by an earlier run, a bootstrap file of up to
\* MaxLines lines
InitGame ==
    /\ store = (ReservedName :> ReservedRecord) @@ ("move_soul" :> MoveRecord)
    /\ collection = TRUE
    /\ calls = [s \in Slots |-> IdleCall]
    /\ started = 0
    /\ souls = << >>
    /\ \E n \in 0..MaxLines : world = [EmptyWorld EXCEPT !.remaining = n]

NextGame ==
    \/ \E s \in Slots :
        \/ processInitialPrompt_ExecuteTool(s, GameLines)
        \/ executeTool_Lookup(s)
        \/ performAction_Connected(s)
        \/ performAction_Executed(s)
    \/ main_Listen
    \/ connection
    \/ disconnect

SpecGame == InitGame /\ [][NextGame]_vars


\* number of lines of the long bootstrap file
MaxLogLines == 110

\* the lines the long bootstrap file repeats, each of which succeeds and
\* logs one line: paths between the two locations, and moves of the
\* inherited entry 'constructor'
LogLinesCycle ==
    <<[name |-> "link_exit",
       params |-> [NoParams EXCEPT !.fromLocationId = "town_square",
                                   !.direction = "North",
                                   !.toLocationId = "shady_alley"]],
      [name |-> "link_exit",
       params |-> [NoParams EXCEPT !.fromLocationId = "shady_alley",
                                   !.direction = "South",
                                   !.toLocationId = "town_square"]],
      [name |-> "move_soul",
       params |-> [NoParams EXCEPT !.soulId = "constructor",
                                   !.targetLocationId = "shady_alley"]],
      [name |-> "link_exit",
       params |-> [NoParams EXCEPT !.fromLocationId = "town_square",
                                   !.direction = "East",
                                   !.toLocationId = "town_square"]],
      [name |-> "move_soul",
       params |-> [NoParams EXCEPT !.soulId = "constructor",
                                   !.targetLocationId = "town_square"]],
      [name |-> "link_exit",
       params |-> [NoParams EXCEPT !.fromLocationId = "shady_alley",
                                   !.direction = "West",
                                   !.toLocationId = "shady_alley"]],
      [name |-> "create_soul",
       params |-> [NoParams EXCEPT !.name = "Guard",
                                   !.locationId = "nowhere"]]>>

\* line n + 1 of the long bootstrap file
LogLine(n) == LogLinesCycle[(n % Len(LogLinesCycle)) + 1]

\* the server while it processes a bootstrap file that, after the five
\* lines that build the world, goes on for MaxLogLines lines
InitLog ==
    /\ store = (ReservedName :> ReservedRecord)
    /\ collection = TRUE
    /\ calls = [s \in Slots |-> IdleCall]
    /\ started = 0
    /\ souls = << >>
    /\ world = [BootWorld EXCEPT !.remaining = MaxLogLines]

NextLog ==
    \E s \in Slots :
        processInitialPrompt_ExecuteTool(
            s, {LogLine(MaxLogLines - world.remaining)})

SpecLog == InitLog /\ [][NextLog]_vars


(***************************************************************************)
(* Properties.                                                             *)
(***************************************************************************)
Done(s) == calls[s].pc = "done"

\* the call ran createTool: called directly, or through the reserved
\* branch of executeTool
IsCreate(c) == c.op = "createTool" \/ c.delegated

\* a precondition of createTool is violated: empty or non-string name or
\* description, a name outside the identifier grammar, or a schema that is
\* not an object with type 'object' and an object-valued properties
PreconditionViolated(n, d, p) ==
    \/ n.t # "str" \/ n.v = ""
    \/ d.t # "str" \/ d.v = ""
    \/ ~MatchesIdentifierGrammar(n.v)
    \/ p.t # "obj" \/ p.type # "object" \/ p.properties # "map"

\* args lacks, or has null for, a field the schema lists as required
LacksRequired(schema, args) ==
    /\ schema.required = "list"
    /\ \E i \in 1..Len(schema.req) :
          \/ args.t # "obj"
          \/ Member(args, schema.req[i]).t \in {"undef", "null"}

\* the code is exactly one declaration of function name
DefinesExactly(code, name) ==
    /\ WrapperStmts(code).ok
    /\ Len(WrapperStmts(code).stmts) = 1
    /\ WrapperStmts(code).stmts[1].k = "function"
    /\ WrapperStmts(code).stmts[1].name = name

SuccessResult(name) == StringResult(<<"Successfully created tool:", name>>)
WarningResult(name) ==
    StringResult(<<"Warning:", "Tool", name, "already existed. Creation skipped.">>)

\* number of stored records whose name is name
RecordsNamed(name) == Cardinality({id \in DOMAIN store : store[id].name = name})

\* C1: every executeTool call completes by returning a string, and every
\* call in which a step failed returns a string that starts with 'Error:'
C1_ExecuteToolReturnsString ==
    \A s \in Slots :
        LET c == calls[s]
        IN  Done(s) /\ c.op = "executeTool"
            => /\ c.status = "returned"
               /\ c.result.t = "string"
               /\ c.failed => StartsWithError(c.result)

\* C2: once createTool has returned the success string for code that is
\* exactly the requested function, sync or async, an executeTool of that
\* name with all required arguments present invokes the function and
\* returns the string the function produces
C2_CreatedToolReturnsItsString ==
    \A s, r \in Slots :
        LET c == calls[s]
            e == calls[r]
        IN  /\ Done(s) /\ IsCreate(c) /\ c.name.t = "str"
            /\ c.result = SuccessResult(c.name.v)
            /\ Done(r) /\ e.op = "executeTool" /\ e.toolName = c.name
            /\ e.definition # {}
            => \A d \in e.definition :
                  LET fn == WrapperStmts(d.code).stmts[1]
                  IN  /\ ~d.is_internal
                      /\ DefinesExactly(d.code, d.name)
                      /\ ~LacksRequired(d.parameters, e.args)
                      /\ Invoke(fn, e.args).k = "return"
                      /\ Invoke(fn, e.args).t = "string"
                      => /\ e.status = "returned"
                         /\ e.invoked
                         /\ e.result = StringResult(Invoke(fn, e.args).text)

\* C3: when the function of a stored generated tool fails during its
\* invocation, executeTool returns a string starting with 'Error:' and the
\* failure does not escape the executor
C3_FailingToolYieldsError ==
    \A s \in Slots :
        LET c == calls[s]
        IN  /\ Done(s) /\ c.op = "executeTool"
            /\ \E d \in c.definition : ~d.is_internal
            /\ c.invoked /\ c.failed
            => /\ c.status = "returned"
               /\ StartsWithError(c.result)
               /\ ~c.escaped

C5_StoredCodeWasChecked ==
    \A id \in DOMAIN store :
        ~store[id].is_internal
        => /\ \/ StartsWithSignature(store[id].code, store[id].name, FALSE)
              \/ StartsWithSignature(store[id].code, store[id].name, TRUE)
           /\ SyntaxOK(store[id].code)

\* a generated record is stored while another createTool call was refused
\* for its code
C5_Witness ==
    /\ \E id \in DOMAIN store : ~store[id].is_internal
    /\ \E s \in Slots :
          /\ Done(s) /\ IsCreate(calls[s]) /\ calls[s].providerCalls = 1
          /\ calls[s].embedCalls = 0
          /\ calls[s].before = {}
          /\ StartsWithError(calls[s].result)

\* C6: a direct createTool call with a violated precondition returns a
\* string starting with 'Error:', does not raise, and calls neither the
\* code provider nor the embedding provider nor the store's add
C6_ViolatedPreconditionYieldsError ==
    \A s \in Slots :
        LET c == calls[s]
        IN  /\ Done(s) /\ c.op = "createTool"
            /\ PreconditionViolated(c.name, c.description, c.parameters)
            => /\ c.status = "returned"
               /\ StartsWithError(c.result)
               /\ c.providerCalls = 0
               /\ c.embedCalls = 0
               /\ c.adds = 0

\* C7, as stated: createTool with valid arguments for a name that an
\* earlier createTool has stored leaves the record unchanged, issues no
\* add, and returns a string that does not start with 'Error:', whatever
\* the provider answers
C7_ExistingNameNeverErrors ==
    \A s \in Slots :
        LET c == calls[s]
        IN  /\ Done(s) /\ IsCreate(c)
            /\ \E rec \in c.before : ~rec.is_internal
            /\ ~PreconditionViolated(c.name, c.description, c.parameters)
            => /\ Stored(c.name) = c.before
               /\ c.adds = 0
               /\ c.status = "returned"
               /\ ~StartsWithError(c.result)

\* C7, amended: createTool with valid arguments for a name that already has
\* a record leaves the record unchanged, requests no embedding and issues
\* no add; it returns the warning, or a string starting with 'Error:' when
\* the generation, the validation or the existence check fails
C7_ExistingNameUnchanged ==
    \A s \in Slots :
        LET c == calls[s]
        IN  /\ Done(s) /\ IsCreate(c) /\ c.before # {}
            /\ ~PreconditionViolated(c.name, c.description, c.parameters)
            => /\ Stored(c.name) = c.before
               /\ c.adds = 0
               /\ c.embedCalls = 0
               /\ c.status = "returned"
               /\ c.result = WarningResult(c.name.v) \/ StartsWithError(c.result)

\* a second createTool of a generated tool's name returned the warning
C7_Witness ==
    \E s \in Slots :
        LET c == calls[s]
        IN  /\ Done(s) /\ IsCreate(c) /\ c.name = Str("greet")
            /\ c.before # {}
            /\ c.result = WarningResult("greet")

\* C8: when two createTool calls for the same new name have both finished,
\* neither refused for its code and one of them successful, exactly one
\* record of that name is stored
C8_ConcurrentCreationStoresOne ==
    \A s, r \in Slots :
        LET c == calls[s]
            e == calls[r]
        IN  /\ s # r /\ Done(s) /\ Done(r) /\ IsCreate(c) /\ IsCreate(e)
            /\ c.name.t = "str" /\ e.name = c.name
            /\ c.before = {} /\ e.before = {}
            /\ c.result = SuccessResult(c.name.v)
            => RecordsNamed(c.name.v) = 1

\* both calls passed the existence check and both issued their add
C8_Witness ==
    \E s, r \in Slots :
        LET c == calls[s]
            e == calls[r]
        IN  /\ s # r /\ Done(s) /\ Done(r) /\ IsCreate(c) /\ IsCreate(e)
            /\ c.name = Str("greet") /\ e.name = c.name
            /\ c.before = {} /\ e.before = {}
            /\ c.adds = 1 /\ e.adds = 1
            /\ c.result = SuccessResult("greet")
            /\ RecordsNamed("greet") = 1

\* C9: the list getAvailableTools returns has the reserved descriptor at
\* index 0 and no other entry with the reserved name
C9_ReservedFirstAndOnce ==
    \A s \in Slots :
        LET c == calls[s]
        IN  Done(s) /\ c.op = "getAvailableTools"
            => /\ c.status = "returned"
               /\ c.result.t = "list"
               /\ Len(c.result.list) >= 1
               /\ c.result.list[1] = ReservedDescriptor
               /\ \A i \in 2..Len(c.result.list) :
                     c.result.list[i].name # ReservedName

\* the query covered the whole store, the reserved record included, and
\* the list has a generated tool after the reserved descriptor
C9_Witness ==
    \E s \in Slots :
        LET c == calls[s]
        IN  /\ Done(s) /\ c.op = "getAvailableTools" /\ ~c.failed
            /\ ReservedName \in DOMAIN store
            /\ c.count >= Cardinality(DOMAIN store)
            /\ Len(c.result.list) = 2
            /\ c.result.list[2].name = "greet"

\* C10: a getAvailableTools call whose embedding or query failed returns,
\* without raising, the list of exactly the reserved descriptor
C10_FailureYieldsReservedOnly ==
    \A s \in Slots :
        LET c == calls[s]
        IN  Done(s) /\ c.op = "getAvailableTools" /\ c.failed
            => /\ c.status = "returned"
               /\ c.result = ListResult(<<ReservedDescriptor>>)

\* the query failed over a store that holds a generated tool
C10_Witness ==
    \E s \in Slots :
        LET c == calls[s]
        IN  /\ Done(s) /\ c.op = "getAvailableTools" /\ c.failed
            /\ \E id \in DOMAIN store : ~store[id].is_internal
            /\ c.result = ListResult(<<ReservedDescriptor>>)


C12_OnlyReservedIsInternal ==
    \A id \in DOMAIN store : store[id].is_internal <=> id = ReservedName


\* C13: the registry is append-only: in every step, every record of the
\* store stays under its id with its name, description, parameters_json,
\* code and is_internal unchanged
C13_AppendOnly ==
    [][\A id \in DOMAIN store :
          id \in DOMAIN store' /\ store'[id] = store[id]]_vars

\* a createTool call issued its add for a name another call had stored
\* meanwhile; the add was refused and the record is in the store
C13_Witness ==
    \E s \in Slots :
        LET c == calls[s]
        IN  /\ Done(s) /\ IsCreate(c) /\ c.name = Str("greet")
            /\ c.before = {} /\ c.adds = 1
            /\ StartsWithError(c.result)
            /\ "greet" \in DOMAIN store


\* the provider's answer is empty, or its sanitized text fails the
\* signature check or the syntax check
AnswerRejected(content, name) ==
    \/ Trim(content) = <<>>
    \/ /\ ~StartsWithSignature(sanitizeGeneratedCode(Trim(content), name), name, FALSE)
       /\ ~StartsWithSignature(sanitizeGeneratedCode(Trim(content), name), name, TRUE)
    \/ ~SyntaxOK(sanitizeGeneratedCode(Trim(content), name))

\* C14: a createTool call whose provider request failed, or whose answer is
\* empty or fails the signature or the syntax check, returns a string
\* starting with 'Error:' and has requested no existence check, no
\* embedding and no add
C14_RejectedAnswerStopsCreation ==
    \A s \in Slots :
        LET c == calls[s]
        IN  /\ IsCreate(c)
            /\ \/ c.providerFailed
               \/ \E content \in c.providerText :
                     AnswerRejected(content, c.name.v)
            => /\ Done(s)
               /\ c.status = "returned"
               /\ StartsWithError(c.result)
               /\ c.getCalls = 0
               /\ c.embedCalls = 0
               /\ c.adds = 0

\* a call ended on an answer that parses but declares another function
C14_Witness ==
    \E s \in Slots :
        LET c == calls[s]
        IN  /\ Done(s) /\ IsCreate(c) /\ c.providerCalls = 1
            /\ c.providerText = {TextOtherName}
            /\ AnswerRejected(TextOtherName, c.name.v)
            /\ StartsWithError(c.result)
            /\ c.getCalls = 0


\* C15: a createTool call returns the success string naming the tool only
\* when its store add was issued and completed without error, so that the
\* store holds a record of that name; a call whose existence check,
\* embedding call or store add failed returns a string starting with
\* 'Error:' and does not raise.
C15_SuccessOnlyAfterAdd ==
    \A s \in Slots :
        LET c == calls[s]
        IN  Done(s) /\ IsCreate(c)
            => /\ c.result = SuccessResult(c.name.v)
                  => /\ c.status = "returned" /\ ~c.failed
                     /\ c.getCalls = 1 /\ c.embedCalls = 1 /\ c.adds = 1
                     /\ RecordsNamed(c.name.v) = 1
               /\ c.getCalls = 1 /\ c.failed
                  => /\ c.status = "returned"
                     /\ StartsWithError(c.result)

\* one call returned the success string after its add, another failed at
\* its add and returned the error string
C15_Witness ==
    \E s, r \in Slots :
        /\ Done(s) /\ IsCreate(calls[s])
        /\ calls[s].result = SuccessResult(calls[s].name.v)
        /\ calls[s].adds = 1
        /\ Done(r) /\ IsCreate(calls[r])
        /\ calls[r].adds = 1 /\ calls[r].failed
        /\ calls[r].status = "returned" /\ StartsWithError(calls[r].result)

\* C16: an executeTool call for the reserved name whose args lacks, or has
\* null for, one of new_tool_name, new_tool_description and
\* new_tool_parameters returns a string starting with 'Error:' without
\* entering createTool: the code provider is not called, and no existence
\* check, embedding or add is issued
C16_ReservedArgsCheckedFirst ==
    \A s \in Slots :
        LET c == calls[s]
        IN  /\ c.op = "executeTool" /\ c.toolName = Str(ReservedName)
            /\ LacksRequired(ReservedParameters, c.args)
            => /\ Done(s)
               /\ c.status = "returned"
               /\ StartsWithError(c.result)
               /\ ~c.delegated
               /\ c.providerCalls = 0
               /\ c.getCalls = 0 /\ c.embedCalls = 0 /\ c.adds = 0

\* a call for the reserved name whose new_tool_parameters is null ended
\* with the error string
C16_Witness ==
    \E s \in Slots :
        LET c == calls[s]
        IN  /\ Done(s) /\ c.op = "executeTool" /\ c.toolName = Str(ReservedName)
            /\ c.args = ArgsNewTool(Str("greet"), Description, SchemaNull)
            /\ LacksRequired(ReservedParameters, c.args)
            /\ StartsWithError(c.result) /\ ~c.delegated

\* C17: an executeTool call for a name other than the reserved name that
\* has no record in the store returns a string starting with 'Error:' and
\* has compiled and invoked nothing
C17_UnknownToolYieldsError ==
    \A s \in Slots :
        LET c == calls[s]
        IN  /\ Done(s) /\ c.op = "executeTool"
            /\ c.toolName # Str(ReservedName)
            /\ c.toolName.v \notin DOMAIN store
            => /\ c.status = "returned"
               /\ StartsWithError(c.result)
               /\ ~c.compiled
               /\ ~c.invoked

\* the lookup of a name without a record was answered by the store, which
\* holds a generated tool under another name
C17_Witness ==
    \E s \in Slots :
        LET c == calls[s]
        IN  /\ Done(s) /\ c.op = "executeTool"
            /\ c.toolName = Str("does_not_exist")
            /\ "does_not_exist" \notin DOMAIN store
            /\ "greet" \in DOMAIN store
            /\ c.result = ErrorResult(<<"Tool", "does_not_exist",
                                        "not found or definition is corrupted.">>)
            /\ ~c.compiled

\* C18: executeTool compiles and invokes only code of records marked as
\* generated: a call for a name other than the reserved name whose record
\* has is_internal true returns a string starting with 'Error:' and has
\* compiled and invoked nothing
C18_InternalRecordNotExecuted ==
    \A s \in Slots :
        LET c == calls[s]
        IN  /\ (/\ Done(s) /\ c.op = "executeTool"
                /\ c.toolName # Str(ReservedName)
                /\ \E rec \in c.before :
                      rec.name = c.toolName.v /\ rec.is_internal)
               => /\ c.status = "returned"
                  /\ StartsWithError(c.result)
                  /\ ~c.compiled
                  /\ ~c.invoked
            /\ c.op = "executeTool" /\ (c.compiled \/ c.invoked)
               => /\ c.toolName.v \in DOMAIN store
                  /\ ~store[c.toolName.v].is_internal

\* the lookup found the record added by hand and the call was refused
C18_Witness ==
    \E s \in Slots :
        LET c == calls[s]
        IN  /\ Done(s) /\ c.op = "executeTool"
            /\ c.toolName = Str(ManualName)
            /\ c.before = {ManualRecord}
            /\ \E d \in c.definition : d.is_internal /\ d.code = ManualRecord.code
            /\ c.result = ErrorResult(<<"Cannot execute internal tool",
                                        ManualName, "directly.">>)
            /\ ~c.compiled

\* C19: the schema read back for a tool equals the schema passed to the
\* createTool call that returned the success string for it, both in the
\* definition executeTool obtains from getToolDefinition and in the tool's
\* entry of the list getAvailableTools returns
C19_SchemaRoundTrip ==
    \A s, r \in Slots :
        LET c == calls[s]
            e == calls[r]
        IN  /\ Done(s) /\ c.op = "createTool"
            /\ c.result = SuccessResult(c.name.v)
            /\ Done(r)
            => /\ e.op = "executeTool" /\ e.toolName = c.name
                  => \A d \in e.definition : d.parameters = c.parameters
               /\ e.op = "getAvailableTools" /\ ~e.failed
                  => \A i \in 1..Len(e.result.list) :
                        e.result.list[i].name = c.name.v
                        => e.result.list[i].parameters = c.parameters

\* C20: when a performAction through an owned artifact linked to move_soul
\* has run the stored generated code of move_soul and executeTool has
\* returned a string that does not start with 'Error:', the location of
\* the acting soul is no longer the location the action started from
C20_MoveUpdatesLocation ==
    \A s \in Slots :
        LET c == calls[s]
        IN  /\ Done(s) /\ c.op = "performAction"
            /\ c.toolName = Str("move_soul")
            /\ \E d \in c.definition : ~d.is_internal
            /\ c.invoked
            /\ c.status = "returned" /\ c.result.t = "string"
            /\ ~StartsWithError(c.result)
            => souls[c.args.soulId.v].locationId # c.args.locationId.v

\* the checks of the handler: the soul exists, the artifact exists, the
\* soul's inventory holds it, and it names a tool
MayUseArtifact(soulId, artifactId) ==
    /\ soulId \in DOMAIN souls
    /\ artifactId \in DOMAIN world.artifacts
    /\ includes(souls[soulId].inventory, artifactId)
    /\ world.artifacts[artifactId].linkedToolName # ""

\* C21: a performAction event reaches executeTool only when the socket's
\* soul exists, the artifact exists, the soul's inventory holds its id and
\* the artifact names a tool; in every other case the handler ends with no
\* tool looked up, compiled or invoked, and in all cases the souls of the
\* game state are as they were
C21_OnlyUsableArtifactsExecute ==
    \A s \in Slots :
        LET c == calls[s]
        IN  c.op = "performAction"
            => /\ MayUseArtifact(PlayerSoulId, c.artifactId)
                  \/ /\ Done(s)
                     /\ c.toolName = Undef
                     /\ c.definition = {}
                     /\ ~c.compiled /\ ~c.invoked
                     /\ c.providerCalls = 0 /\ c.adds = 0
               /\ souls = ConnectedSouls

\* an action through the crown, which exists but is not in the inventory,
\* ended without a tool, and an action through the boots ran move_soul
C21_Witness ==
    \E s, r \in Slots :
        /\ Done(s) /\ calls[s].op = "performAction"
        /\ calls[s].artifactId = "crown"
        /\ ~MayUseArtifact(PlayerSoulId, "crown")
        /\ calls[s].toolName = Undef
        /\ Done(r) /\ calls[r].op = "performAction"
        /\ calls[r].artifactId = "boots"
        /\ calls[r].toolName = Str("move_soul")

\* C22: a createTool call asks the code provider exactly once when its
\* input preconditions hold and never otherwise; in particular a failed or
\* refused generation is not followed by a second request
C22_ProviderCalledOnce ==
    \A s \in Slots :
        LET c == calls[s]
        IN  IsCreate(c)
            => c.providerCalls =
                  IF PreconditionViolated(c.name, c.description, c.parameters)
                  THEN 0 ELSE 1

\* a call ended on a refused answer after its one request, another ended
\* on a failed request
C22_Witness ==
    \E s, r \in Slots :
        /\ Done(s) /\ IsCreate(calls[s])
        /\ calls[s].providerText # {} /\ calls[s].failed
        /\ calls[s].providerCalls = 1
        /\ Done(r) /\ IsCreate(calls[r])
        /\ calls[r].providerFailed
        /\ calls[r].providerCalls = 1

\* one step of a createTool call, from record c to record d of its slot,
\* follows the order of createTool: validation, generation with
\* sanitization and the signature and syntax checks, existence check,
\* embedding, add.  st is the store before the step, st2 the store after it
CreateStepInOrder(c, d, st, st2) ==
    /\ c.pc \in {"idle", "done"}
       => /\ d.pc \in {"ct_provider", "done"}
          /\ d.getCalls = 0 /\ d.embedCalls = 0 /\ d.adds = 0
          /\ d.pc = "ct_provider"
             => /\ ~PreconditionViolated(d.name, d.description, d.parameters)
                /\ d.providerCalls = 1
          /\ d.pc = "done" => d.providerCalls = 0
    /\ c.pc = "ct_provider"
       => /\ d.pc \in {"ct_get", "done"}
          /\ d.embedCalls = 0 /\ d.adds = 0
          /\ d.pc = "ct_get"
             => /\ d.getCalls = 1
                /\ \E content \in d.providerText :
                      /\ ~AnswerRejected(content, d.name.v)
                      /\ d.generatedCode =
                            sanitizeGeneratedCode(Trim(content), d.name.v)
          /\ d.pc = "done" => StartsWithError(d.result)
    /\ c.pc = "ct_get"
       => /\ d.pc \in {"ct_embed", "done"}
          /\ d.adds = 0
          /\ d.pc = "ct_embed"
             => /\ d.name.v \notin DOMAIN st
                /\ d.embedCalls = 1
          /\ d.pc = "done"
             => d.result = WarningResult(d.name.v) \/ StartsWithError(d.result)
    /\ c.pc = "ct_embed"
       => /\ d.pc \in {"ct_add", "done"}
          /\ d.pc = "ct_add" => d.adds = 1
          /\ d.pc = "done" => StartsWithError(d.result)
    /\ c.pc = "ct_add"
       => /\ d.pc = "done"
          /\ d.result = SuccessResult(d.name.v) \/ StartsWithError(d.result)
    /\ d.result = SuccessResult(d.name.v)
       => /\ c.pc = "ct_add"
          /\ d.name.v \in DOMAIN st2

\* C23: the steps of a createTool call occur in the order validation,
\* generation, sanitization with the signature and syntax checks, existence
\* check, embedding, add: the existence check is requested only for an
\* accepted answer, the embedding only after the check found no record, and
\* the success string is returned only by the step that completes the add
C23_CreateStepsInOrder ==
    [][\A s \in Slots :
          calls'[s] # calls[s] /\ IsCreate(calls'[s])
          => CreateStepInOrder(calls[s], calls'[s], store, store')]_vars

\* a creation delegated by executeTool went through every step and stored
\* its record
C23_Witness ==
    \E s \in Slots :
        LET c == calls[s]
        IN  /\ Done(s) /\ c.op = "executeTool" /\ c.delegated
            /\ c.providerCalls = 1 /\ c.getCalls = 1
            /\ c.embedCalls = 1 /\ c.adds = 1
            /\ c.result = SuccessResult(c.name.v)
            /\ c.name.v \in DOMAIN store

\* one step of an executeTool call for a name other than the reserved one,
\* from record c to record d of its slot: the call is received and its one
\* lookup requested; the answer of the lookup ends the call, which has
\* compiled only for a found generated record whose required arguments are
\* present, and has invoked only what it compiled, with a string as result
ExecuteStepInOrder(c, d) ==
    /\ c.pc \in {"idle", "done", "et_lookup"}
    /\ c.pc \in {"idle", "done"}
       => /\ d.pc = "et_lookup"
          /\ d.getCalls = 1
          /\ d.definition = {} /\ ~d.compiled /\ ~d.invoked
    /\ c.pc = "et_lookup"
       => /\ d.pc = "done"
          /\ d.getCalls = 1
          /\ d.compiled
             => /\ d.definition # {}
                /\ \A x \in d.definition :
                      ~x.is_internal /\ ~LacksRequired(x.parameters, d.args)
          /\ d.invoked
             => /\ d.compiled
                /\ d.status = "returned"
                /\ d.result.t = "string"

\* C24: an executeTool call on a generated tool is received, validated,
\* compiled, invoked and answered with a string in that order and without
\* a retry: its lookup is requested once, the answer of the lookup ends the
\* call, the compilation and the invocation belong to that one step, the
\* source is compiled only after the required-argument check has passed
\* and the function is invoked only after the compilation
C24_ExecuteStepsInOrder ==
    [][\A s \in Slots :
          /\ calls'[s] # calls[s]
          /\ calls'[s].op = "executeTool"
          /\ calls'[s].toolName # Str(ReservedName)
          => ExecuteStepInOrder(calls[s], calls'[s])]_vars

\* a call looked up greet once, compiled it, invoked it and returned its
\* greeting
C24_Witness ==
    \E s \in Slots :
        LET c == calls[s]
        IN  /\ Done(s) /\ c.op = "executeTool" /\ c.toolName = Str("greet")
            /\ c.getCalls = 1 /\ c.compiled /\ c.invoked
            /\ c.args = ArgsAria
            /\ c.result = StringResult(<<"Hello,", "Aria">>)

\* args has all three fields of the reserved tool, none of them null
ReservedArgsPresent(args) == ~LacksRequired(ReservedParameters, args)

\* the three fields have the types the reserved branch asks for (line 441)
ReservedArgsTyped(args) ==
    /\ ReservedArgsPresent(args)
    /\ TypeOf(args.new_tool_name) = "string"
    /\ TypeOf(args.new_tool_description) = "string"
    /\ TypeOf(args.new_tool_parameters) = "object"

\* the call is an executeTool call of the reserved tool
IsReservedCall(c) == c.op = "executeTool" /\ c.toolName = Str(ReservedName)

\* C25: executeTool with the reserved name and all three arguments present
\* with the types string, string and object delegates to createTool with
\* exactly the three arguments and returns what createTool returns (the
\* message of an error createTool throws, as an 'Error:' string); the
\* reserved branch looks up and compiles no record, and the store is read
\* for the new tool's name only, so the reserved record is read only when
\* the new tool's name is the reserved name itself
C25_ReservedDelegates ==
    \A s \in Slots :
        LET c == calls[s]
        IN  IsReservedCall(c)
            => /\ c.definition = {} /\ ~c.compiled /\ ~c.invoked
               /\ c.delegated <=> ReservedArgsTyped(c.args)
               /\ c.delegated
                  => /\ c.name = c.args.new_tool_name
                     /\ c.description = c.args.new_tool_description
                     /\ c.parameters = c.args.new_tool_parameters
                     /\ c.getCalls <= 1
                     /\ Done(s) /\ c.status = "returned"
                        /\ c.result \in {SuccessResult(c.name.v),
                                         WarningResult(c.name.v)}
                        => c.getCalls = 1
                     /\ Done(s) /\ c.result = WarningResult(c.name.v)
                        => c.name.v \in DOMAIN store
                     /\ Done(s) /\ c.result = SuccessResult(c.name.v)
                        => /\ c.name.v \in DOMAIN store
                           /\ c.adds = 1

\* C25 as stated: all three arguments present is enough for the delegation,
\* and the record stored under the reserved name is never read
C25_AsStated ==
    \A s \in Slots :
        LET c == calls[s]
        IN  IsReservedCall(c) /\ ReservedArgsPresent(c.args)
            => /\ c.delegated
               /\ c.getCalls > 0 => c.name # Str(ReservedName)

\* without a reserved record in the store, a call of the reserved tool
\* created greet through createTool
C25_Witness ==
    /\ ReservedName \notin DOMAIN store
    /\ \E s \in Slots :
          LET c == calls[s]
          IN  /\ Done(s) /\ IsReservedCall(c) /\ c.delegated
              /\ c.name = Str("greet")
              /\ c.result = SuccessResult("greet")
              /\ "greet" \in DOMAIN store

\* the record of id is one the loop of getAvailableTools lists
Listed(id) ==
    /\ id # ReservedName
    /\ store[id].name # "" /\ store[id].description # ""

\* the ids of a query result that are listed, in their order
ListedIds(ids) == SelectSeq(ids, Listed)

\* C26: the entries a successful getAvailableTools returns after index 0
\* are the descriptors of the records of the query result, in its rank
\* order, without the reserved record and the records that lack a name or a
\* description; no two entries of the list have the same name and the list
\* has at most count + 1 entries
C26_ListFollowsRanking ==
    \A s \in Slots :
        LET c == calls[s]
            list == c.result.list
            kept == ListedIds(c.ranking)
        IN  Done(s) /\ c.op = "getAvailableTools" /\ ~c.failed
            => /\ Len(c.ranking) <= c.count
               /\ Len(list) = 1 + Len(kept)
               /\ \A i \in 1..Len(kept) :
                     list[i + 1] =
                        [name |-> store[kept[i]].name,
                         description |-> store[kept[i]].description,
                         parameters |-> JSONparse(store[kept[i]].parameters_json)]
               /\ \A i, j \in 1..Len(list) : list[i].name = list[j].name => i = j
               /\ Len(list) <= c.count + 1

\* a query ranked move_soul before greet, and the list has them in that
\* order; another ranked the record without description and the reserved
\* record, and its list has the reserved descriptor only
C26_Witness ==
    \E s, r \in Slots :
        LET c == calls[s]
            e == calls[r]
        IN  /\ Done(s) /\ c.op = "getAvailableTools" /\ ~c.failed
            /\ c.ranking = <<"move_soul", "greet">>
            /\ Len(c.result.list) = 3
            /\ c.result.list[2].name = "move_soul"
            /\ c.result.list[3].name = "greet"
            /\ Done(r) /\ e.op = "getAvailableTools" /\ ~e.failed
            /\ e.ranking = <<"draft", ReservedName>>
            /\ e.result.list = <<ReservedDescriptor>>

\* what the function of the tool of call c hands to the wrapper when the
\* wrapper calls it: a promise for an async function, and what its body
\* returns or throws otherwise
FunctionOutcome(c) ==
    LET d     == CHOOSE x \in c.definition : TRUE
        stmts == WrapperStmts(d.code).stmts
        fn    == stmts[CHOOSE i \in 1..Len(stmts) :
                          stmts[i].k = "function" /\ stmts[i].name = c.toolName.v]
    IN  IF fn.isAsync THEN Returns("promise", PromiseText)
        ELSE Invoke(fn, c.args)

\* the function of the tool of call c was invoked and returned a value
\* that is not a string
ReturnedNonString(s) ==
    /\ Done(s) /\ calls[s].op = "executeTool" /\ calls[s].invoked
    /\ FunctionOutcome(calls[s]).k = "return"
    /\ FunctionOutcome(calls[s]).t # "string"

\* C27 as stated: whatever non-string value the function returns,
\* executeTool returns its text as a string and no error
C27_AsStated ==
    \A s \in Slots :
        ReturnedNonString(s)
        => /\ calls[s].status = "returned"
           /\ calls[s].result.t = "string"
           /\ ~StartsWithError(calls[s].result)

\* C27: when the function returns a value that is not a string,
\* executeTool returns a string and never the raw value: the text String()
\* gives for the value, or, for a value String() cannot convert (an object
\* without toString and valueOf), the 'Error: Execution failed' string of
\* the wrapper's catch
C27_NonStringConverted ==
    \A s \in Slots :
        LET c == calls[s]
        IN  ReturnedNonString(s)
            => /\ c.status = "returned"
               /\ c.result.t = "string"
               /\ FunctionOutcome(c).t # "bare"
                  => /\ c.result = StringResult(FunctionOutcome(c).text)
                     /\ ~StartsWithError(c.result)
               /\ FunctionOutcome(c).t = "bare"
                  => StartsWithError(c.result)

\* count_souls returned the number 42 and its call returned the string 42;
\* find_soul returned an object without prototype and its call an error
C27_Witness ==
    \E s, r \in Slots :
        /\ ReturnedNonString(s) /\ calls[s].toolName = Str("count_souls")
        /\ FunctionOutcome(calls[s]).t = "number"
        /\ calls[s].result = StringResult(<<"42">>)
        /\ ReturnedNonString(r) /\ calls[r].toolName = Str("find_soul")
        /\ StartsWithError(calls[r].result)

\* the code compiles inside the wrapper and declares no function named name
BindsNoFunction(code, name) ==
    /\ WrapperCompiles(code)
    /\ \A i \in 1..Len(WrapperStmts(code).stmts) :
          ~(/\ WrapperStmts(code).stmts[i].k = "function"
            /\ WrapperStmts(code).stmts[i].name = name)

\* C28: an executeTool call that compiled code which binds no function of
\* the tool's name returns a string starting with 'Error:' and has invoked
\* nothing, a global function of that name included
C28_UnboundFunctionIsError ==
    \A s \in Slots :
        LET c == calls[s]
        IN  /\ Done(s) /\ c.op = "executeTool" /\ c.compiled
            /\ \E d \in c.definition : BindsNoFunction(d.code, c.toolName.v)
            => /\ c.status = "returned"
               /\ StartsWithError(c.result)
               /\ ~c.invoked

\* the code stored for greet declares greet_all, and the call of greet
\* returned the error of the typeof check without invoking anything
C28_UnboundLocalRefused ==
    \E s \in Slots :
        LET c == calls[s]
        IN  /\ Done(s) /\ c.op = "executeTool" /\ c.compiled
            /\ c.toolName = Str("greet")
            /\ \E d \in c.definition : BindsNoFunction(d.code, "greet")
            /\ StartsWithError(c.result)
            /\ ~c.invoked

\* the index of the first function keyword of text, with its async keyword
\* if it has one; 0 when there is none
DefinitionStart(text) ==
    LET at == {i \in 1..Len(text) :
                  \/ text[i] = FUNCTION /\ (i < 3 \/ text[i - 2] # ASYNC)
                  \/ /\ text[i] = ASYNC /\ i + 2 <= Len(text)
                     /\ text[i + 2] = FUNCTION}
    IN  IF at = {} THEN 0 ELSE CHOOSE i \in at : \A j \in at : i <= j

\* text is commentary (prose or a comment) followed by a definition of the
\* function name with the expected signature
CommentaryThenDefinition(text, name) ==
    /\ DefinitionStart(text) > 1
    /\ \E i \in 1..(DefinitionStart(text) - 1) : text[i] \in {PROSE, COMMENT}
    /\ \A i \in 1..(DefinitionStart(text) - 1) : text[i] \in {PROSE, COMMENT, NL, SP}
    /\ LET def == Tail2(text, DefinitionStart(text) - 1)
       IN  StartsWithSignature(def, name, FALSE) \/ StartsWithSignature(def, name, TRUE)

\* C29: for an answer of the provider that has commentary before a
\* definition of the requested function, sanitizeGeneratedCode returns the
\* text from the function (or async function) token of that definition on,
\* and createTool does not refuse the answer at its signature check
C29_CommentaryIsCut ==
    \A s \in Slots :
        LET c == calls[s]
        IN  IsCreate(c) /\ c.name.t = "str"
            => \A text \in c.providerText :
                  CommentaryThenDefinition(text, c.name.v)
                  => /\ sanitizeGeneratedCode(Trim(text), c.name.v)
                           = Tail2(Trim(text), DefinitionStart(Trim(text)) - 1)
                     /\ \/ StartsWithSignature(
                              sanitizeGeneratedCode(Trim(text), c.name.v),
                              c.name.v, FALSE)
                        \/ StartsWithSignature(
                              sanitizeGeneratedCode(Trim(text), c.name.v),
                              c.name.v, TRUE)

\* C30: every record createTool has stored holds source that compiles,
\* unchanged, inside the wrapper of executeTool (strict code in the try
\* block, next to the wrapper's own bindings) and binds there a function of
\* the record's name
C30_StoredSourceCompilesInWrapper ==
    \A id \in DOMAIN store :
        ~store[id].is_internal
        => /\ MatchesIdentifierGrammar(store[id].name)
           /\ SyntaxOK(store[id].code)
           /\ WrapperCompiles(store[id].code)
           /\ \E i \in 1..Len(WrapperStmts(store[id].code).stmts) :
                 /\ WrapperStmts(store[id].code).stmts[i].k = "function"
                 /\ WrapperStmts(store[id].code).stmts[i].name = store[id].name

\* C31: a createTool call for a new tool returns the success string only in
\* a step after which the record stored under its name holds the code and
\* the description this call wrote
C31_SuccessMeansOwnRecord ==
    [][\A s \in Slots :
          /\ calls'[s] # calls[s]
          /\ IsCreate(calls'[s])
          /\ calls'[s].pc = "done"
          /\ calls'[s].name.t = "str"
          /\ calls'[s].name.v # ReservedName
          /\ calls'[s].result = SuccessResult(calls'[s].name.v)
          => /\ calls'[s].name.v \in DOMAIN store'
             /\ store'[calls'[s].name.v] = GeneratedRecord(calls[s])]_vars

\* the performAction event of slot s reached executeTool and the handler
\* has finished
ActionExecuted(s) ==
    /\ Done(s) /\ calls[s].op = "performAction"
    /\ calls[s].toolName # Undef

ReadsOnly(c) ==
    \/ c.op = "getAvailableTools"
    \/ c.op = "executeTool" /\ c.toolName # Str(ReservedName)

\* C37: a step of getAvailableTools, or of executeTool on a name other than
\* the reserved one (its getToolDefinition lookup included), leaves the
\* store and the collection as they were, and such a call never asks the
\* code provider for code and never adds a record.
C37_ReadsLeaveStore ==
    [][\A s \in Slots :
          calls'[s] # calls[s] /\ ReadsOnly(calls'[s])
          => /\ store' = store
             /\ collection' = collection
             /\ calls'[s].providerCalls = 0
             /\ calls'[s].adds = 0]_vars

\* an executeTool call has run the stored tool greet, read through
\* getToolDefinition, and the store still holds the record it ran
C37_Witness ==
    \E s \in Slots :
        /\ Done(s)
        /\ calls[s].op = "executeTool"
        /\ calls[s].toolName = Str("greet")
        /\ calls[s].getCalls = 1
        /\ calls[s].invoked
        /\ "greet" \in DOMAIN store

\* the names the bootstrap handles with the server's own functions
BuiltInNames ==
    {"create_soul", "create_location", "link_exit", "create_artifact",
     "give_artifact_to_soul", "move_soul"}

\* the step processes one EXECUTE TOOL line of the bootstrap file
LineProcessed == world'.remaining = world.remaining - 1

\* C33: a step that processes an EXECUTE TOOL line naming a built-in
\* function starts no call of the tool manager (no executeTool, no lookup
\* of a definition) although the store holds a generated move_soul, and
\* the line's result is the one the built-in function returned; a line with
\* any other name starts exactly one executeTool call with that name.
C33_BuiltInsBypassExecuteTool ==
    [][LineProcessed =>
         IF world'.lineName \in BuiltInNames
         THEN /\ calls' = calls
              /\ started' = started
              /\ store' = store
              /\ \E line \in GameLines, id \in SoulIds \cup ArtifactIds \cup {""} :
                    /\ line.name = world'.lineName
                    /\ world'.lineResult =
                          RunInternal(line.name, souls, world, line.params, id).result
         ELSE /\ started' = started + 1
              /\ \E s \in Slots :
                    /\ calls'[s].op = "executeTool"
                    /\ calls'[s].toolName = Str(world'.lineName)
                    /\ calls'[s].pc = "et_lookup"
                    /\ \A t \in Slots \ {s} : calls'[t] = calls[t]
              /\ souls' = souls]_vars

\* the bootstrap file has been processed: its line for greet went through
\* executeTool, and its line for move_soul then ran the built-in function
\* (which moved the inherited entry 'constructor') while the store held the
\* generated tool move_soul
C33_Witness ==
    /\ world.remaining = 0
    /\ world.lineName = "move_soul"
    /\ world.lineResult # << >>
    /\ world.lineResult[1] = "Object"
    /\ "move_soul" \in DOMAIN store
    /\ started = 1
    /\ \E s \in Slots :
          /\ Done(s)
          /\ calls[s].op = "executeTool"
          /\ calls[s].toolName = Str("greet")

\* C34 (as the claim states it): in every reachable game state every soul's
\* locationId is the id of a location in gameState.locations, and every
\* exit of every location leads to the id of a location in
\* gameState.locations.
C34_PlacesExist ==
    /\ \A soulId \in DOMAIN souls :
          souls[soulId].locationId \in DOMAIN world.locations
    /\ \A locationId \in DOMAIN world.locations :
          \A direction \in DOMAIN world.locations[locationId].exits :
             world.locations[locationId].exits[direction]
                \in DOMAIN world.locations

\* what _internal_give_artifact_to_soul does, in the current game state,
\* when asked to give soulId the artifact artifactId
GiveAgain(soulId, artifactId) ==
    internal_give_artifact_to_soul(
        souls, world,
        [NoParams EXCEPT !.soulId = soulId, !.artifactId = artifactId])

\* C35: in every reachable game state every entry of a soul's inventory is
\* the id of an artifact in gameState.artifacts and no id occurs twice in
\* an inventory; and giving a soul an artifact it holds returns a string
\* starting with "Warning: " and leaves the souls (the inventory among
\* them), the artifacts and the world log as they are.
C35_InventoryWellFormed ==
    \A soulId \in DOMAIN souls :
        LET inventory == souls[soulId].inventory
        IN  \A i \in 1..Len(inventory) :
               /\ inventory[i] \in DOMAIN world.artifacts
               /\ \A j \in 1..Len(inventory) :
                     inventory[j] = inventory[i] => j = i
               /\ LET r == GiveAgain(soulId, inventory[i])
                  IN  /\ ~r.threw
                      /\ r.result[1] = "Warning: "
                      /\ r.souls = souls
                      /\ r.world = world

\* a player has connected and was given the boots the bootstrap created,
\* and the log tells so
C35_Witness ==
    \E soulId \in DOMAIN souls :
        /\ souls[soulId].type = "player"
        /\ souls[soulId].inventory # << >>
        /\ world.artifacts[souls[soulId].inventory[1]].name = "Boots of Walking"
        /\ world.worldLog[Len(world.worldLog)]
              = <<"Player", " obtained the artifact '", "Boots of Walking", "'.">>

\* the params a call of a built-in function can be given in the current
\* game state: those of the bootstrap lines, and those naming the souls
\* and artifacts the state holds
CallsToTry ==
    GameLines
    \cup {[name |-> "give_artifact_to_soul",
           params |-> [NoParams EXCEPT !.soulId = so, !.artifactId = a]] :
             so \in DOMAIN souls, a \in DOMAIN world.artifacts \cup {"ghost"}}
    \cup {[name |-> "move_soul",
           params |-> [NoParams EXCEPT !.soulId = so, !.targetLocationId = t]] :
             so \in DOMAIN souls, t \in DOMAIN world.locations \cup {"nowhere"}}

\* C36: in every reachable game state, a call of a built-in game function
\* (create_soul, create_location, link_exit, create_artifact,
\* give_artifact_to_soul, move_soul) that returns a string starting with
\* "Error:" leaves the souls, the locations, the artifacts and the world
\* log exactly as they were.
C36_ErrorsChangeNothing ==
    \A line \in CallsToTry, id \in SoulIds \cup ArtifactIds :
        LET r == RunInternal(line.name, souls, world, line.params, id)
        IN  IsError(r.result) => /\ ~r.threw
                                 /\ r.souls = souls
                                 /\ r.world = world

\* the bootstrap has created the town square, and its next line, which
\* asked for a location with the same id, was answered with an error
C36_Witness ==
    /\ "town_square" \in DOMAIN world.locations
    /\ world.lineName = "create_location"
    /\ IsError(world.lineResult)
    /\ world.lineResult[2] = "Location with ID '"
    /\ Len(world.worldLog) = 2

\* the line the built-in function of the bootstrap line now processed
\* hands to logToWorld: what it leaves in a log that was empty
LoggedByLine ==
    RunInternal(world'.lineName, souls, [world EXCEPT !.worldLog = << >>],
                LogLine(MaxLogLines - world.remaining).params,
                "").world.worldLog[1]

\* C38: every call of logToWorld (made by each bootstrap line whose
\* built-in function succeeds) leaves the world log with at most 50
\* entries and the new entry last: while the log held fewer than 50 the
\* old entries stay in front of it, and once it held 50 the oldest entry
\* is dropped and the others move up one place in their order.
C38_LogBounded ==
    [][LineProcessed /\ world'.lineResult # << >> /\ ~IsError(world'.lineResult) =>
         LET old == world.worldLog
             new == world'.worldLog
         IN  /\ Len(new) <= WorldLogLimit
             /\ new[Len(new)] = LoggedByLine
             /\ IF Len(old) < WorldLogLimit
                THEN /\ Len(new) = Len(old) + 1
                     /\ SubSeq(new, 1, Len(old)) = old
                ELSE /\ Len(new) = WorldLogLimit
                     /\ SubSeq(new, 1, WorldLogLimit - 1)
                           = SubSeq(old, 2, WorldLogLimit)]_vars

\* more than 50 lines have been logged: the log is full, its welcome line
\* and the lines of the first creations have been dropped, and its last
\* entry is the line logged last
C38_Witness ==
    /\ Len(world.worldLog) = WorldLogLimit
    /\ MaxLogLines - world.remaining > 2 * WorldLogLimit
    /\ world.worldLog[1] # <<"Welcome to the Infinite MMORPG!">>
    /\ \A i \in 1..WorldLogLimit :
          world.worldLog[i][1] \in {"A path opened from ", "Object"}
    /\ world.lineName = "move_soul"
    /\ world.worldLog[WorldLogLimit][1] = "Object"

=============================================================================
